---- MODULE Spec2Model ----
(***************************************************************************)
(* The ledger core of src/src/bank.rs (Bank), with the transaction model   *)
(* of src/src/transaction.rs and the payment-plan contract of              *)
(* src/src/payment_plan.rs.  The Budget language (budget.rs) is not part   *)
(* of the sources at hand; its three operations follow section 4.1 of the  *)
(* specification.                                                          *)
(*                                                                         *)
(* Two granularities are modelled over the same state:                     *)
(*   - Spec / TxSpec : every Bank operation is one atomic action (calls    *)
(*     made one after the other);                                          *)
(*   - ConcSpec      : two threads run one Bank call each, one lock        *)
(*     acquisition or atomic operation per step.                           *)
(***************************************************************************)
EXTENDS Integers, Sequences, FiniteSets, TLC

(***************************************************************************)
(* Bounds of the model.                                                    *)
(***************************************************************************)
\* tokens of the mint's deposit (Mint::new(tokens))
MintTokens == 2
\* largest timestamp a call carries; 0 is Utc.timestamp(0, 0)
MaxTime == 2
\* capacity of the fingerprint window; the program's MAX_ENTRY_IDS is 1024 * 4
MAX_ENTRY_IDS == 2
\* transactions are submitted while transaction_count is below this cap (replays
\* after a re-registration would otherwise go on for ever)
MaxCount == 2

(***************************************************************************)
(* Opaque values: accounts, fingerprints, signatures.                      *)
(***************************************************************************)
PublicKey == {"mint", "alice"}
Hash == {"h0", "h1"}
Time == 0..MaxTime

\* Utc.timestamp(0, 0)
ZeroInstant == 0

(***************************************************************************)
(* payment_plan.rs: Witness, Payment.                                      *)
(***************************************************************************)
WTimestamp(dt) == [kind |-> "Timestamp", dt |-> dt, key |-> "none"]
WSignature(k) == [kind |-> "Signature", dt |-> 0, key |-> k]

Payment(tokens, to) == [tokens |-> tokens, to |-> to]

(***************************************************************************)
(* Budget language (spec section 4.1): Condition, Pay / After / Race.      *)
(***************************************************************************)
CTimestamp(dt) == [kind |-> "Timestamp", dt |-> dt, key |-> "none"]
CSignature(k) == [kind |-> "Signature", dt |-> 0, key |-> k]

NoCond == [kind |-> "None", dt |-> 0, key |-> "none"]
NoPay == Payment(0, "none")

Pay(p) == [kind |-> "Pay", c1 |-> NoCond, p1 |-> p, c2 |-> NoCond, p2 |-> NoPay]
After(c, p) == [kind |-> "After", c1 |-> c, p1 |-> p, c2 |-> NoCond, p2 |-> NoPay]
Race(c1, p1, c2, p2) == [kind |-> "Race", c1 |-> c1, p1 |-> p1, c2 |-> c2, p2 |-> p2]

\* Condition::is_satisfied
is_satisfied(c, w) ==
    \/ c.kind = "Timestamp" /\ w.kind = "Timestamp" /\ w.dt >= c.dt
    \/ c.kind = "Signature" /\ w.kind = "Signature" /\ w.key = c.key

\* Budget::final_payment: Some(p) iff the plan is the literal Pay(p)
has_final_payment(plan) == plan.kind = "Pay"
final_payment(plan) == plan.p1

\* Budget::verify
verify(plan, spendable_tokens) ==
    CASE plan.kind = "Pay" -> plan.p1.tokens = spendable_tokens
      [] plan.kind = "After" -> plan.p1.tokens = spendable_tokens
      [] OTHER -> plan.p1.tokens = spendable_tokens /\ plan.p2.tokens = spendable_tokens

\* a variant of apply_witness that tries the second branch of a Race before
\* the first
apply_witness_second_first(plan, w) ==
    CASE plan.kind = "Pay" -> plan
      [] plan.kind = "After" ->
            IF is_satisfied(plan.c1, w) THEN Pay(plan.p1) ELSE plan
      [] OTHER ->
            IF is_satisfied(plan.c2, w) THEN Pay(plan.p2)
            ELSE IF is_satisfied(plan.c1, w) THEN Pay(plan.p1)
            ELSE plan

\* a variant of apply_witness that drops the first branch of a Race as soon as
\* a witness fails to satisfy it
apply_witness_drops_branch(plan, w) ==
    CASE plan.kind = "Pay" -> plan
      [] plan.kind = "After" ->
            IF is_satisfied(plan.c1, w) THEN Pay(plan.p1) ELSE plan
      [] OTHER ->
            IF is_satisfied(plan.c1, w) THEN Pay(plan.p1)
            ELSE IF is_satisfied(plan.c2, w) THEN Pay(plan.p2)
            ELSE After(plan.c2, plan.p2)

\* Budget::apply_witness (the reduced plan is returned)
apply_witness(plan, w) ==
    CASE plan.kind = "Pay" -> plan
      [] plan.kind = "After" ->
            IF is_satisfied(plan.c1, w) THEN Pay(plan.p1) ELSE plan
      [] OTHER ->
            IF is_satisfied(plan.c1, w) THEN Pay(plan.p1)
            ELSE IF is_satisfied(plan.c2, w) THEN Pay(plan.p2)
            ELSE plan

(***************************************************************************)
(* transaction.rs: Contract, Instruction, Transaction and its constructors.*)
(* A signature is determined by the signed content, so the model names a   *)
(* signature by the transaction it signs.                                  *)
(***************************************************************************)
NoPlan == [kind |-> "None", c1 |-> NoCond, p1 |-> NoPay, c2 |-> NoCond, p2 |-> NoPay]

NewContract(tokens, plan) ==
    [kind |-> "NewContract", tokens |-> tokens, plan |-> plan, dt |-> 0, tx_sig |-> "none"]
ApplyTimestamp(dt) ==
    [kind |-> "ApplyTimestamp", tokens |-> 0, plan |-> NoPlan, dt |-> dt, tx_sig |-> "none"]
ApplySignature(tx_sig) ==
    [kind |-> "ApplySignature", tokens |-> 0, plan |-> NoPlan, dt |-> 0, tx_sig |-> tx_sig]

new_from_instruction(sig, from, instruction, last_id, fee) ==
    [sig |-> sig, from |-> from, instruction |-> instruction, last_id |-> last_id, fee |-> fee]

new_taxed(sig, from, to, tokens, fee, last_id) ==
    new_from_instruction(sig, from, NewContract(tokens, Pay(Payment(tokens - fee, to))),
                         last_id, fee)

new(sig, from, to, tokens, last_id) == new_taxed(sig, from, to, tokens, 0, last_id)

new_timestamp(sig, from, dt, last_id) ==
    new_from_instruction(sig, from, ApplyTimestamp(dt), last_id, 0)

new_signature(sig, from, tx_sig, last_id) ==
    new_from_instruction(sig, from, ApplySignature(tx_sig), last_id, 0)

new_on_date(sig, from, to, dt, tokens, last_id) ==
    new_from_instruction(sig, from,
        NewContract(tokens, Race(CTimestamp(dt), Payment(tokens, to),
                                 CSignature(from), Payment(tokens, from))),
        last_id, 0)

\* a variant of verify_plan that checks the plan against the tokens, not
\* against the tokens less the fee
verify_plan_whole_tokens(tx) ==
    IF tx.instruction.kind = "NewContract"
    THEN /\ tx.fee >= 0
         /\ tx.fee <= tx.instruction.tokens
         /\ verify(tx.instruction.plan, tx.instruction.tokens)
    ELSE TRUE

\* Transaction::verify_plan
verify_plan(tx) ==
    IF tx.instruction.kind = "NewContract"
    THEN /\ tx.fee >= 0
         /\ tx.fee <= tx.instruction.tokens
         /\ verify(tx.instruction.plan, tx.instruction.tokens - tx.fee)
    ELSE TRUE

(***************************************************************************)
(* The transactions the clients submit.  Each is built by one of the       *)
(* constructors above.                                                     *)
(***************************************************************************)
Signature == {"s1", "s2", "s3", "s4", "s5", "s6", "s7", "s8"}

TxOf(sig) ==
    CASE sig = "s1" -> new(sig, "mint", "alice", 2, "h0")
      [] sig = "s2" -> new_taxed(sig, "mint", "alice", 1, 1, "h0")
      [] sig = "s3" -> new_on_date(sig, "mint", "alice", 1, 1, "h0")
      [] sig = "s4" -> new(sig, "alice", "mint", 1, "h0")
      [] sig = "s5" -> new(sig, "mint", "alice", -1, "h0")
      [] sig = "s6" -> new_timestamp(sig, "mint", 1, "h0")
      [] sig = "s7" -> new_signature(sig, "mint", "s3", "h0")
      [] OTHER -> new(sig, "mint", "alice", 1, "h1")

Transactions == {TxOf(sig) : sig \in Signature}

\* the transaction of test_overspend_attack: a transfer of 1 whose Pay plan was
\* edited to pay 2
OverspendTx ==
    new_from_instruction("s9", "mint", NewContract(1, Pay(Payment(2, "alice"))), "h0", 0)

\* what clients may send, and the part of it that passes Transaction::verify_plan
Submitted == Transactions \cup {OverspendTx}
Verified == {tx \in Submitted : verify_plan(tx)}

(***************************************************************************)
(* bank.rs: BankError and Result.                                          *)
(***************************************************************************)
Ok == [err |-> "Ok", arg |-> "none"]
Err(e, a) == [err |-> e, arg |-> a]
NoRet == [err |-> "None", arg |-> "none"]

(***************************************************************************)
(* bank.rs: the Bank as a value, and its operations as functions from a    *)
(* Bank to the Bank they leave behind (and their result).                  *)
(*   balances  : function from the accounts that have an entry to tokens   *)
(*   pending   : function from the signatures that have an entry to plans  *)
(*   last_ids  : sequence of [id, sigs], oldest first                      *)
(***************************************************************************)
EmptyMap == [x \in {} |-> 0]

MapPut(m, k, v) == [x \in DOMAIN m \cup {k} |-> IF x = k THEN v ELSE m[x]]
MapRemove(m, k) == [x \in DOMAIN m \ {k} |-> m[x]]

\* apply_payment that stores the payment's tokens over an existing balance
apply_payment_overwrite(balances, payment) ==
    MapPut(balances, payment.to, payment.tokens)

\* Bank::apply_payment
apply_payment(balances, payment) ==
    IF payment.to \in DOMAIN balances
    THEN [balances EXCEPT ![payment.to] = @ + payment.tokens]
    ELSE MapPut(balances, payment.to, payment.tokens)

\* the bank of new_from_deposit, before the deposit is applied
EmptyBank ==
    [balances |-> EmptyMap, pending |-> EmptyMap, last_ids |-> << >>,
     time_sources |-> {}, last_time |-> ZeroInstant, transaction_count |-> 0]

\* Bank::new_from_deposit
new_from_deposit(deposit) ==
    [EmptyBank EXCEPT !.balances = apply_payment(EmptyBank.balances, deposit)]

\* a variant of the lookup without rev(): the index of the oldest entry that
\* carries last_id, 0 when there is none
find_first_id(last_ids, last_id) ==
    LET hits == {i \in 1..Len(last_ids) : last_ids[i].id = last_id}
    IN IF hits = {} THEN 0 ELSE CHOOSE i \in hits : \A j \in hits : i <= j

\* .iter().rev().find(|x| x.0 == *last_id): the index of the newest entry
\* that carries last_id, 0 when there is none
find_last_id(last_ids, last_id) ==
    LET hits == {i \in 1..Len(last_ids) : last_ids[i].id = last_id}
    IN IF hits = {} THEN 0 ELSE CHOOSE i \in hits : \A j \in hits : j <= i

\* reserve_signature that tests for the signature and does not insert it
reserve_signature_no_insert(signatures, sig) ==
    IF sig \in signatures
    THEN [sigs |-> signatures, res |-> Err("DuplicateSignature", sig)]
    ELSE [sigs |-> signatures, res |-> Ok]

\* Bank::reserve_signature
reserve_signature(signatures, sig) ==
    IF sig \in signatures
    THEN [sigs |-> signatures, res |-> Err("DuplicateSignature", sig)]
    ELSE [sigs |-> signatures \cup {sig}, res |-> Ok]

\* a variant of forget_signature that empties the sig-set
forget_signature_clear(signatures, sig) == {}

\* Bank::forget_signature
forget_signature(signatures, sig) == signatures \ {sig}

\* forget_signature_with_last_id that forgets nothing
forget_signature_with_last_id_noop(last_ids, sig, last_id) == last_ids

\* Bank::forget_signature_with_last_id
forget_signature_with_last_id(last_ids, sig, last_id) ==
    LET i == find_last_id(last_ids, last_id)
    IN IF i = 0 THEN last_ids
       ELSE [last_ids EXCEPT ![i].sigs = forget_signature(@, sig)]

\* reserve_signature_with_last_id that lets a fingerprint without entry pass
reserve_signature_with_last_id_lenient(last_ids, sig, last_id) ==
    LET i == find_last_id(last_ids, last_id)
    IN IF i = 0 THEN [last_ids |-> last_ids, res |-> Ok]
       ELSE LET r == reserve_signature(last_ids[i].sigs, sig)
            IN [last_ids |-> [last_ids EXCEPT ![i].sigs = r.sigs], res |-> r.res]

\* Bank::reserve_signature_with_last_id
reserve_signature_with_last_id(last_ids, sig, last_id) ==
    LET i == find_last_id(last_ids, last_id)
    IN IF i = 0 THEN [last_ids |-> last_ids, res |-> Err("LastIdNotFound", last_id)]
       ELSE LET r == reserve_signature(last_ids[i].sigs, sig)
            IN [last_ids |-> [last_ids EXCEPT ![i].sigs = r.sigs], res |-> r.res]

\* a variant of register_entry_id that evicts only when the window is over its bound
register_entry_id_late(b, last_id) ==
    LET kept == IF Len(b.last_ids) > MAX_ENTRY_IDS THEN Tail(b.last_ids) ELSE b.last_ids
    IN [b EXCEPT !.last_ids = Append(kept, [id |-> last_id, sigs |-> {}])]

\* Bank::register_entry_id
register_entry_id(b, last_id) ==
    LET kept == IF Len(b.last_ids) >= MAX_ENTRY_IDS THEN Tail(b.last_ids) ELSE b.last_ids
    IN [b EXCEPT !.last_ids = Append(kept, [id |-> last_id, sigs |-> {}])]

\* Bank::new
new_bank(mint_pubkey, mint_tokens, mint_last_id) ==
    register_entry_id(new_from_deposit(Payment(mint_tokens, mint_pubkey)), mint_last_id)

\* a variant of apply_debits that counts the contracts only, not the witness
\* instructions
apply_debits_contracts_only(b, tx) ==
    LET ins == tx.instruction
        r == reserve_signature_with_last_id(b.last_ids, tx.sig, tx.last_id)
    IN IF ins.kind = "NewContract" /\ ins.tokens < 0
       THEN [bank |-> b, res |-> Err("NegativeTokens", "none")]
       ELSE IF tx.from \notin DOMAIN b.balances
       THEN [bank |-> b, res |-> Err("AccountNotFound", tx.from)]
       ELSE IF r.res # Ok
       THEN [bank |-> b, res |-> r.res]
       ELSE IF ins.kind = "NewContract" /\ b.balances[tx.from] < ins.tokens
       THEN [bank |-> [b EXCEPT !.last_ids =
                          forget_signature_with_last_id(r.last_ids, tx.sig, tx.last_id)],
             res |-> Err("InsufficientFunds", tx.from)]
       ELSE IF ins.kind = "NewContract"
       THEN [bank |-> [b EXCEPT
                          !.last_ids = r.last_ids,
                          !.balances = [@ EXCEPT ![tx.from] = @ - ins.tokens],
                          !.transaction_count = @ + 1],
             res |-> Ok]
       ELSE [bank |-> [b EXCEPT !.last_ids = r.last_ids], res |-> Ok]

\* a variant of apply_debits that reserves the signature before it looks the
\* sender's account up
apply_debits_reserve_first(b, tx) ==
    LET ins == tx.instruction
        r == reserve_signature_with_last_id(b.last_ids, tx.sig, tx.last_id)
    IN IF ins.kind = "NewContract" /\ ins.tokens < 0
       THEN [bank |-> b, res |-> Err("NegativeTokens", "none")]
       ELSE IF r.res # Ok
       THEN [bank |-> b, res |-> r.res]
       ELSE IF tx.from \notin DOMAIN b.balances
       THEN [bank |-> [b EXCEPT !.last_ids = r.last_ids],
             res |-> Err("AccountNotFound", tx.from)]
       ELSE IF ins.kind = "NewContract" /\ b.balances[tx.from] < ins.tokens
       THEN [bank |-> [b EXCEPT !.last_ids =
                          forget_signature_with_last_id(r.last_ids, tx.sig, tx.last_id)],
             res |-> Err("InsufficientFunds", tx.from)]
       ELSE [bank |-> [b EXCEPT
                          !.last_ids = r.last_ids,
                          !.balances = IF ins.kind = "NewContract"
                                       THEN [@ EXCEPT ![tx.from] = @ - ins.tokens]
                                       ELSE @,
                          !.transaction_count = @ + 1],
             res |-> Ok]

\* a variant of apply_debits that looks the sender's account up for a
\* NewContract only
apply_debits_witness_unchecked(b, tx) ==
    LET ins == tx.instruction
        r == reserve_signature_with_last_id(b.last_ids, tx.sig, tx.last_id)
    IN IF ins.kind = "NewContract" /\ ins.tokens < 0
       THEN [bank |-> b, res |-> Err("NegativeTokens", "none")]
       ELSE IF ins.kind = "NewContract" /\ tx.from \notin DOMAIN b.balances
       THEN [bank |-> b, res |-> Err("AccountNotFound", tx.from)]
       ELSE IF r.res # Ok
       THEN [bank |-> b, res |-> r.res]
       ELSE IF ins.kind = "NewContract" /\ b.balances[tx.from] < ins.tokens
       THEN [bank |-> [b EXCEPT !.last_ids =
                          forget_signature_with_last_id(r.last_ids, tx.sig, tx.last_id)],
             res |-> Err("InsufficientFunds", tx.from)]
       ELSE [bank |-> [b EXCEPT
                          !.last_ids = r.last_ids,
                          !.balances = IF ins.kind = "NewContract"
                                       THEN [@ EXCEPT ![tx.from] = @ - ins.tokens]
                                       ELSE @,
                          !.transaction_count = @ + 1],
             res |-> Ok]

\* Bank::apply_debits, run alone: the loop's compare_exchange succeeds at once
apply_debits(b, tx) ==
    LET ins == tx.instruction
        r == reserve_signature_with_last_id(b.last_ids, tx.sig, tx.last_id)
    IN IF ins.kind = "NewContract" /\ ins.tokens < 0
       THEN [bank |-> b, res |-> Err("NegativeTokens", "none")]
       ELSE IF tx.from \notin DOMAIN b.balances
       THEN [bank |-> b, res |-> Err("AccountNotFound", tx.from)]
       ELSE IF r.res # Ok
       THEN [bank |-> b, res |-> r.res]
       ELSE IF ins.kind = "NewContract" /\ b.balances[tx.from] < ins.tokens
       THEN [bank |-> [b EXCEPT !.last_ids =
                          forget_signature_with_last_id(r.last_ids, tx.sig, tx.last_id)],
             res |-> Err("InsufficientFunds", tx.from)]
       ELSE [bank |-> [b EXCEPT
                          !.last_ids = r.last_ids,
                          !.balances = IF ins.kind = "NewContract"
                                       THEN [@ EXCEPT ![tx.from] = @ - ins.tokens]
                                       ELSE @,
                          !.transaction_count = @ + 1],
             res |-> Ok]

\* the sweep of Bank::apply_timestamp over the pending table (lines 321-340):
\* every plan is reduced with Witness::Timestamp(last_time); a plan that has
\* become a payment is credited and its key removed
RECURSIVE sweep(_, _, _)
sweep(b, keys, w) ==
    IF keys = {} THEN b
    ELSE LET key == CHOOSE k \in keys : TRUE
             plan == apply_witness(b.pending[key], w)
         IN IF has_final_payment(plan)
            THEN sweep([b EXCEPT !.balances = apply_payment(@, final_payment(plan)),
                                 !.pending = MapRemove(@, key)],
                       keys \ {key}, w)
            ELSE sweep([b EXCEPT !.pending[key] = plan], keys \ {key}, w)

\* a variant of apply_timestamp that takes the timestamp of any sender
apply_timestamp_trusts_all(b, from, dt) ==
    LET b1 == IF b.last_time = ZeroInstant
              THEN [b EXCEPT !.time_sources = @ \cup {from}]
              ELSE b
        b2 == IF dt > b1.last_time THEN [b1 EXCEPT !.last_time = dt] ELSE b1
    IN sweep(b2, DOMAIN b2.pending, WTimestamp(b2.last_time))

\* Bank::apply_timestamp
apply_timestamp(b, from, dt) ==
    LET b1 == IF b.last_time = ZeroInstant
              THEN [b EXCEPT !.time_sources = @ \cup {from}]
              ELSE b
    IN IF from \in b1.time_sources
       THEN LET b2 == IF dt > b1.last_time THEN [b1 EXCEPT !.last_time = dt] ELSE b1
            IN sweep(b2, DOMAIN b2.pending, WTimestamp(b2.last_time))
       ELSE b1

\* apply_signature that credits a completed plan and leaves its entry in place
apply_signature_keep_entry(b, from, tx_sig) ==
    IF tx_sig \in DOMAIN b.pending
    THEN LET plan == apply_witness(b.pending[tx_sig], WSignature(from))
         IN IF has_final_payment(plan)
            THEN [b EXCEPT !.balances = apply_payment(@, final_payment(plan)),
                           !.pending[tx_sig] = plan]
            ELSE [b EXCEPT !.pending[tx_sig] = plan]
    ELSE b

\* a variant of apply_signature that takes the witness as signed by whoever the
\* plan's Signature condition names, without looking at the caller
apply_signature_any_signer(b, from, tx_sig) ==
    IF tx_sig \in DOMAIN b.pending
    THEN LET signer == IF b.pending[tx_sig].c1.kind = "Signature"
                       THEN b.pending[tx_sig].c1.key ELSE b.pending[tx_sig].c2.key
             plan == apply_witness(b.pending[tx_sig], WSignature(signer))
         IN IF has_final_payment(plan)
            THEN [b EXCEPT !.balances = apply_payment(@, final_payment(plan)),
                           !.pending = MapRemove(@, tx_sig)]
            ELSE [b EXCEPT !.pending[tx_sig] = plan]
    ELSE b

\* Bank::apply_signature
apply_signature(b, from, tx_sig) ==
    IF tx_sig \in DOMAIN b.pending
    THEN LET plan == apply_witness(b.pending[tx_sig], WSignature(from))
         IN IF has_final_payment(plan)
            THEN [b EXCEPT !.balances = apply_payment(@, final_payment(plan)),
                           !.pending = MapRemove(@, tx_sig)]
            ELSE [b EXCEPT !.pending[tx_sig] = plan]
    ELSE b

\* a variant of apply_credits that looks for the final payment of the plan as
\* the contract carries it, without reducing it with the clock first
apply_credits_unreduced(b, tx) ==
    LET ins == tx.instruction
    IN CASE ins.kind = "NewContract" ->
              IF has_final_payment(ins.plan)
              THEN [b EXCEPT !.balances = apply_payment(@, final_payment(ins.plan))]
              ELSE [b EXCEPT !.pending = MapPut(@, tx.sig, ins.plan)]
         [] ins.kind = "ApplyTimestamp" -> apply_timestamp(b, tx.from, ins.dt)
         [] OTHER -> apply_signature(b, tx.from, ins.tx_sig)

\* Bank::apply_credits
apply_credits(b, tx) ==
    LET ins == tx.instruction
    IN CASE ins.kind = "NewContract" ->
              LET plan == apply_witness(ins.plan, WTimestamp(b.last_time))
              IN IF has_final_payment(plan)
                 THEN [b EXCEPT !.balances = apply_payment(@, final_payment(plan))]
                 ELSE [b EXCEPT !.pending = MapPut(@, tx.sig, plan)]
         [] ins.kind = "ApplyTimestamp" -> apply_timestamp(b, tx.from, ins.dt)
         [] OTHER -> apply_signature(b, tx.from, ins.tx_sig)

\* Bank::apply_credits, lines 213-224: does it insert the plan of tx into pending?
Parks(b, tx) ==
    /\ tx.instruction.kind = "NewContract"
    /\ ~has_final_payment(apply_witness(tx.instruction.plan, WTimestamp(b.last_time)))

\* Bank::process_transaction
process_transaction(b, tx) ==
    LET d == apply_debits(b, tx)
    IN IF d.res = Ok THEN [bank |-> apply_credits(d.bank, tx), res |-> Ok]
       ELSE d

\* Bank::process_transactions, first wave, when the pool takes the
\* transactions in position order
RECURSIVE debit_wave(_, _)
debit_wave(b, txs) ==
    IF txs = <<>> THEN [bank |-> b, results |-> <<>>]
    ELSE LET d == apply_debits(b, Head(txs))
             rest == debit_wave(d.bank, Tail(txs))
         IN [bank |-> rest.bank, results |-> <<d.res>> \o rest.results]

\* Bank::process_transactions, second wave: the credits of the accepted ones
RECURSIVE credit_wave(_, _, _)
credit_wave(b, txs, results) ==
    IF txs = <<>> THEN b
    ELSE credit_wave(IF Head(results) = Ok THEN apply_credits(b, Head(txs)) ELSE b,
                     Tail(txs), Tail(results))

\* Bank::process_transactions, run in position order
process_transactions(b, txs) ==
    LET d == debit_wave(b, txs)
    IN [bank |-> credit_wave(d.bank, txs, d.results), results |-> d.results]

\* the sequence backwards
Reverse(seq) == [i \in 1..Len(seq) |-> seq[Len(seq) + 1 - i]]

\* Bank::process_transactions under one of two schedules of the pool: the
\* transactions taken in position order, or in the opposite order; the results
\* are returned by position either way
process_transactions_scheduled(b, txs, backwards) ==
    IF backwards
    THEN LET r == process_transactions(b, Reverse(txs))
         IN [bank |-> r.bank, results |-> Reverse(r.results)]
    ELSE process_transactions(b, txs)

\* the first Err of the results, by position, or Ok: `result?` in the loop
first_error(results) ==
    LET errs == {i \in 1..Len(results) : results[i] # Ok}
    IN IF errs = {} THEN Ok
       ELSE results[CHOOSE i \in errs : \A j \in errs : i <= j]

\* a variant of process_entries that registers the fingerprint of an entry
\* before it processes the entry's transactions
RECURSIVE process_entries_register_first(_, _, _)
process_entries_register_first(b, entries, backwards) ==
    IF entries = <<>> THEN [bank |-> b, res |-> Ok]
    ELSE LET entry == Head(entries)
             r == process_transactions_scheduled(register_entry_id(b, entry.id),
                                                 entry.transactions, backwards)
         IN IF first_error(r.results) # Ok
            THEN [bank |-> r.bank, res |-> first_error(r.results)]
            ELSE process_entries_register_first(r.bank, Tail(entries), backwards)

\* a variant of process_entries that gives up what the transactions of an
\* entry did when one of them is rejected
RECURSIVE process_entries_rollback(_, _, _)
process_entries_rollback(b, entries, backwards) ==
    IF entries = <<>> THEN [bank |-> b, res |-> Ok]
    ELSE LET entry == Head(entries)
             r == process_transactions_scheduled(b, entry.transactions, backwards)
         IN IF first_error(r.results) # Ok
            THEN [bank |-> b, res |-> first_error(r.results)]
            ELSE process_entries_rollback(register_entry_id(r.bank, entry.id),
                                          Tail(entries), backwards)

\* Bank::process_entries
RECURSIVE process_entries(_, _, _)
process_entries(b, entries, backwards) ==
    IF entries = <<>> THEN [bank |-> b, res |-> Ok]
    ELSE LET entry == Head(entries)
             r == process_transactions_scheduled(b, entry.transactions, backwards)
         IN IF first_error(r.results) # Ok
            THEN [bank |-> r.bank, res |-> first_error(r.results)]
            ELSE process_entries(register_entry_id(r.bank, entry.id),
                                 Tail(entries), backwards)

(***************************************************************************)
(* The state: the fields of Bank, the result of the last call, and history *)
(* variables that record what the claims speak about.                      *)
(***************************************************************************)
VARIABLES
    balances,           \* Bank.balances
    pending,            \* Bank.pending
    last_ids,           \* Bank.last_ids
    time_sources,       \* Bank.time_sources
    last_time,          \* Bank.last_time
    transaction_count,  \* Bank.transaction_count
    ret,                \* what the last call returned
    burnt,              \* history: sum of the fees of the admitted contracts
    admitted,           \* history: <<sig, fp>> admitted against the entry that is
                        \*          still the newest resident entry carrying fp
    everAdmitted,       \* history: every <<sig, fp>> ever admitted
    completed,          \* history: the witnesses that completed a pending plan
    parked,             \* history: the signatures ever inserted into the pending table
    thr,                \* ConcSpec: per thread, its call, its position in it, its locals
    mode,               \* ConcSpec: "calls" (two calls) or "batch" (one process_transactions)
    balReaders,         \* ConcSpec: the threads that hold a read lock on 'balances'
    lastIdsReaders,     \* ConcSpec: the threads that hold a read lock on 'last_ids'
    pendingWriter,      \* ConcSpec: the thread that holds the write lock on 'pending', or 0
    start,              \* ConcSpec: the Bank the threads started on
    probe,              \* PlanSpec: a transaction, and its plan as witnesses reduce it
    accountant          \* AccountantSpec: the Accountant, its historian's channel included

bankvars == <<balances, pending, last_ids, time_sources, last_time, transaction_count>>
histvars == <<burnt, admitted, everAdmitted, completed, parked>>
concvars == <<thr, mode, balReaders, lastIdsReaders, pendingWriter, start, probe, accountant>>
vars == <<balances, pending, last_ids, time_sources, last_time, transaction_count,
          ret, burnt, admitted, everAdmitted, completed, parked,
          thr, mode, balReaders, lastIdsReaders, pendingWriter, start, probe, accountant>>

\* the Bank the variables hold
Bank ==
    [balances |-> balances, pending |-> pending, last_ids |-> last_ids,
     time_sources |-> time_sources, last_time |-> last_time,
     transaction_count |-> transaction_count]

\* the variables take the fields of b
SetBank(b) ==
    /\ balances' = b.balances
    /\ pending' = b.pending
    /\ last_ids' = b.last_ids
    /\ time_sources' = b.time_sources
    /\ last_time' = b.last_time
    /\ transaction_count' = b.transaction_count

(***************************************************************************)
(* History bookkeeping.                                                    *)
(***************************************************************************)
\* a witness call, as the claims name it
TimestampCall(from, dt) == [kind |-> "Timestamp", from |-> from, dt |-> dt, key |-> "none"]
SignatureCall(from, tx_sig) == [kind |-> "Signature", from |-> from, dt |-> 0, key |-> tx_sig]

\* the pending plans of b that apply_timestamp(from, dt) reduces to a payment
CompletedByTimestamp(b, from, dt) ==
    LET after == apply_timestamp(b, from, dt)
    IN IF from \in after.time_sources
       THEN {[w |-> TimestampCall(from, dt), key |-> k] : k \in
               {k \in DOMAIN b.pending :
                  has_final_payment(apply_witness(b.pending[k], WTimestamp(after.last_time)))}}
       ELSE {}

\* the pending plan of b that apply_signature(from, tx_sig) reduces to a payment
CompletedBySignature(b, from, tx_sig) ==
    IF /\ tx_sig \in DOMAIN b.pending
       /\ has_final_payment(apply_witness(b.pending[tx_sig], WSignature(from)))
    THEN {[w |-> SignatureCall(from, tx_sig), key |-> tx_sig]}
    ELSE {}

\* what the credit of an admitted transaction completes
CompletedByCredits(b, tx) ==
    CASE tx.instruction.kind = "ApplyTimestamp" ->
            CompletedByTimestamp(b, tx.from, tx.instruction.dt)
      [] tx.instruction.kind = "ApplySignature" ->
            CompletedBySignature(b, tx.from, tx.instruction.tx_sig)
      [] OTHER -> {}

\* the fee an admitted transaction takes out of circulation
FeeOf(tx) == IF tx.instruction.kind = "NewContract" THEN tx.fee ELSE 0

(***************************************************************************)
(* Threads (used by ConcSpec; idle under Spec and TxSpec).                 *)
(***************************************************************************)
\* no Accountant was built
NoAccountant == [balances |-> EmptyMap, historian |-> [sent |-> <<>>, alive |-> FALSE]]

\* no transaction is under verify_plan
NoProbe == [tx |-> new_timestamp("none", "none", 0, "none"), plan |-> NoPlan]

Thread == {1, 2}

NoJob == [op |-> "none", sig |-> "none", from |-> "none", dt |-> 0, h |-> "none"]

\* a thread that runs job, at position pc
ThreadAt(job, pc) ==
    [pc |-> pc, job |-> job, res |-> NoRet, cur |-> 0, ent |-> 0,
     todo |-> {}, comp |-> {}, plan |-> NoPlan, pay |-> NoPay, retpc |-> "none"]

\* no lock is held and no thread runs
Quiet ==
    /\ thr = [t \in Thread |-> ThreadAt(NoJob, "idle")]
    /\ mode = "seq"
    /\ balReaders = {}
    /\ lastIdsReaders = {}
    /\ pendingWriter = 0

(***************************************************************************)
(* Init: Bank::new(&mint), as every test of bank.rs starts.                *)
(***************************************************************************)
Init ==
    /\ balances = new_bank("mint", MintTokens, "h0").balances
    /\ pending = new_bank("mint", MintTokens, "h0").pending
    /\ last_ids = new_bank("mint", MintTokens, "h0").last_ids
    /\ time_sources = new_bank("mint", MintTokens, "h0").time_sources
    /\ last_time = new_bank("mint", MintTokens, "h0").last_time
    /\ transaction_count = new_bank("mint", MintTokens, "h0").transaction_count
    /\ ret = NoRet
    /\ burnt = 0
    /\ admitted = {}
    /\ everAdmitted = {}
    /\ completed = {}
    /\ parked = {}
    /\ Quiet
    /\ start = new_bank("mint", MintTokens, "h0")
    /\ probe = NoProbe
    /\ accountant = NoAccountant

(***************************************************************************)
(* One action per Bank operation.                                          *)
(***************************************************************************)
\* process_transaction(&tx)
ProcessTransaction(tx) ==
    /\ LET r == process_transaction(Bank, tx)
           d == apply_debits(Bank, tx)
       IN /\ SetBank(r.bank)
          /\ ret' = r.res
          /\ IF r.res = Ok
             THEN /\ burnt' = burnt + FeeOf(tx)
                  /\ admitted' = admitted \cup {<<tx.sig, tx.last_id>>}
                  /\ everAdmitted' = everAdmitted \cup {<<tx.sig, tx.last_id>>}
                  /\ completed' = {c \in completed : c.key # tx.sig}
                                     \cup CompletedByCredits(d.bank, tx)
                  /\ parked' = IF Parks(d.bank, tx) THEN parked \cup {tx.sig} ELSE parked
             ELSE UNCHANGED histvars
    /\ UNCHANGED concvars

\* register_entry_id(&last_id)
RegisterEntryId(last_id) ==
    /\ LET b == register_entry_id(Bank, last_id)
       IN /\ SetBank(b)
          /\ admitted' = {a \in admitted :
                            a[2] # last_id /\ find_last_id(b.last_ids, a[2]) # 0}
    /\ ret' = Ok
    /\ UNCHANGED <<burnt, everAdmitted, completed, parked>>
    /\ UNCHANGED concvars

\* apply_timestamp(from, dt)
ApplyTimestampCall(from, dt) ==
    /\ SetBank(apply_timestamp(Bank, from, dt))
    /\ ret' = Ok
    /\ completed' = completed \cup CompletedByTimestamp(Bank, from, dt)
    /\ UNCHANGED <<burnt, admitted, everAdmitted, parked>>
    /\ UNCHANGED concvars

\* apply_signature(from, tx_sig)
ApplySignatureCall(from, tx_sig) ==
    /\ SetBank(apply_signature(Bank, from, tx_sig))
    /\ ret' = Ok
    /\ completed' = completed \cup CompletedBySignature(Bank, from, tx_sig)
    /\ UNCHANGED <<burnt, admitted, everAdmitted, parked>>
    /\ UNCHANGED concvars

\* process_transaction(&tx), while fewer than MaxCount transactions were admitted
Submit(tx) ==
    /\ transaction_count < MaxCount
    /\ ProcessTransaction(tx)

Next ==
    \/ \E tx \in Transactions : Submit(tx)
    \/ \E h \in Hash : RegisterEntryId(h)
    \/ \E from \in PublicKey, dt \in Time : ApplyTimestampCall(from, dt)
    \/ \E from \in PublicKey, sig \in Signature : ApplySignatureCall(from, sig)

Spec == Init /\ [][Next]_vars

(***************************************************************************)
(* ConcSpec: two threads, each running one call of Bank, or together the   *)
(* two transactions of one process_transactions batch.  A step is one lock *)
(* acquisition or one atomic operation of the code.  A lock that is taken  *)
(* and released within a step is not recorded; the locks held across steps *)
(* are the read lock on 'balances' of apply_debits (balReaders), the read  *)
(* lock on 'last_ids' of reserve_signature_with_last_id (lastIdsReaders)   *)
(* and the write lock on 'pending' of the witness handlers (pendingWriter).*)
(***************************************************************************)
TxJob(sig) == [op |-> "tx", sig |-> sig, from |-> "none", dt |-> 0, h |-> "none"]
TsJob(from, dt) == [op |-> "ts", sig |-> "none", from |-> from, dt |-> dt, h |-> "none"]
SigJob(from, sig) == [op |-> "sig", sig |-> sig, from |-> from, dt |-> 0, h |-> "none"]
RegJob(h) == [op |-> "reg", sig |-> "none", from |-> "none", dt |-> 0, h |-> h]
BalJob(pubkey) == [op |-> "bal", sig |-> "none", from |-> pubkey, dt |-> 0, h |-> "none"]

TxJobs == {TxJob(sig) : sig \in Signature}
Jobs ==
    TxJobs
    \cup {TsJob(from, dt) : from \in PublicKey, dt \in Time}
    \cup {SigJob(from, sig) : from \in PublicKey, sig \in Signature}
    \cup {RegJob(h) : h \in Hash}
    \cup {BalJob(pubkey) : pubkey \in PublicKey}

\* where a call starts
FirstPc(job) ==
    CASE job.op = "tx" -> "debit_check"
      [] job.op = "ts" -> "ts_genesis"
      [] job.op = "sig" -> "sig_lock"
      [] job.op = "reg" -> "reg"
      [] OTHER -> "get_balance"

\* the banks the threads start on: the new bank, and the bank with the
\* postdated transfer s3 parked
InitBanks ==
    {new_bank("mint", MintTokens, "h0"),
     process_transaction(new_bank("mint", MintTokens, "h0"), TxOf("s3")).bank}

ConcInit ==
    /\ \E b \in InitBanks :
          /\ balances = b.balances
          /\ pending = b.pending
          /\ last_ids = b.last_ids
          /\ time_sources = b.time_sources
          /\ last_time = b.last_time
          /\ transaction_count = b.transaction_count
          /\ start = b
    /\ ret = NoRet
    /\ burnt = 0
    /\ admitted = {}
    /\ everAdmitted = {}
    /\ completed = {}
    /\ parked = {}
    /\ mode \in {"calls", "batch"}
    /\ \E j1 \in Jobs, j2 \in Jobs :
          /\ mode = "batch" => (j1 \in TxJobs /\ j2 \in TxJobs)
          /\ thr = [t \in Thread |->
                      IF t = 1 THEN ThreadAt(j1, FirstPc(j1)) ELSE ThreadAt(j2, FirstPc(j2))]
    /\ balReaders = {}
    /\ lastIdsReaders = {}
    /\ pendingWriter = 0
    /\ probe = NoProbe
    /\ accountant = NoAccountant

\* the transaction of a thread that runs process_transaction
JobTx(t) == TxOf(thr[t].job.sig)

\* the arguments of the witness handler a thread runs, called directly or by
\* apply_credits for a witness instruction
WitFrom(t) == IF thr[t].job.op = "tx" THEN JobTx(t).from ELSE thr[t].job.from
WitDt(t) == IF thr[t].job.op = "tx" THEN JobTx(t).instruction.dt ELSE thr[t].job.dt
WitSig(t) == IF thr[t].job.op = "tx" THEN JobTx(t).instruction.tx_sig ELSE thr[t].job.sig

\* the call of thread t returns res
Return(t, res) == [thr[t] EXCEPT !.pc = "done", !.res = res]

\* the positions inside apply_debits
DebitPcs ==
    {"debit_check", "reserve_find", "reserve_check", "reserve_insert",
     "load", "forget", "cas", "count"}

\* a variant without the collect() between the two waves
CreditsMayStart_unordered(t) == TRUE

\* process_transactions: collect() ends the debit wave before any credit
CreditsMayStart(t) ==
    mode = "batch" => \A u \in Thread : thr[u].pc \notin DebitPcs

\* a variant that drops the write lock on 'pending' between the sweep and the removal
HeldAfterSweep_released(t) == 0

\* apply_timestamp keeps the write lock on 'pending' from the sweep to the removal
HeldAfterSweep(t) == t

\* apply_debits, lines 163-176: the tokens test, the read lock on balances, the lookup
DebitCheck(t) ==
    /\ thr[t].pc = "debit_check"
    /\ LET tx == JobTx(t)
       IN IF tx.instruction.kind = "NewContract" /\ tx.instruction.tokens < 0
          THEN /\ thr' = [thr EXCEPT ![t] = Return(t, Err("NegativeTokens", "none"))]
               /\ UNCHANGED balReaders
          ELSE IF tx.from \notin DOMAIN balances
          THEN /\ thr' = [thr EXCEPT ![t] = Return(t, Err("AccountNotFound", tx.from))]
               /\ UNCHANGED balReaders
          ELSE /\ thr' = [thr EXCEPT ![t].pc = "reserve_find"]
               /\ balReaders' = balReaders \cup {t}
    /\ UNCHANGED <<bankvars, ret, histvars, mode, lastIdsReaders, pendingWriter, start, probe, accountant>>

\* reserve_signature_with_last_id, lines 134-143: read lock on last_ids, reverse find
ReserveFind(t) ==
    /\ thr[t].pc = "reserve_find"
    /\ LET tx == JobTx(t)
           i == find_last_id(last_ids, tx.last_id)
       IN IF i = 0
          THEN /\ thr' = [thr EXCEPT ![t] = Return(t, Err("LastIdNotFound", tx.last_id))]
               /\ balReaders' = balReaders \ {t}
               /\ UNCHANGED lastIdsReaders
          ELSE /\ thr' = [thr EXCEPT ![t].pc = "reserve_check", ![t].ent = i]
               /\ lastIdsReaders' = lastIdsReaders \cup {t}
               /\ UNCHANGED balReaders
    /\ UNCHANGED <<bankvars, ret, histvars, mode, pendingWriter, start, probe, accountant>>

\* reserve_signature, lines 100-106: contains(sig) under the sig-set's read lock
ReserveCheck(t) ==
    /\ thr[t].pc = "reserve_check"
    /\ LET tx == JobTx(t)
       IN IF tx.sig \in last_ids[thr[t].ent].sigs
          THEN /\ thr' = [thr EXCEPT ![t] = Return(t, Err("DuplicateSignature", tx.sig))]
               /\ balReaders' = balReaders \ {t}
               /\ lastIdsReaders' = lastIdsReaders \ {t}
          ELSE /\ thr' = [thr EXCEPT ![t].pc = "reserve_insert"]
               /\ UNCHANGED <<balReaders, lastIdsReaders>>
    /\ UNCHANGED <<bankvars, ret, histvars, mode, pendingWriter, start, probe, accountant>>

\* reserve_signature, lines 107-111: insert(sig) under the sig-set's write lock
ReserveInsert(t) ==
    /\ thr[t].pc = "reserve_insert"
    /\ LET tx == JobTx(t)
       IN /\ last_ids' = [last_ids EXCEPT ![thr[t].ent].sigs = @ \cup {tx.sig}]
          /\ thr' = [thr EXCEPT ![t].pc =
                        IF tx.instruction.kind = "NewContract" THEN "load" ELSE "count"]
    /\ lastIdsReaders' = lastIdsReaders \ {t}
    /\ UNCHANGED <<balances, pending, time_sources, last_time, transaction_count,
                   ret, histvars, mode, balReaders, pendingWriter, start, probe, accountant>>

\* apply_debits, lines 182-188: bal.load and the funds test
Load(t) ==
    /\ thr[t].pc = "load"
    /\ LET tx == JobTx(t)
           current == balances[tx.from]
       IN thr' = [thr EXCEPT ![t].cur = current,
                             ![t].pc = IF current < tx.instruction.tokens
                                       THEN "forget" ELSE "cas"]
    /\ UNCHANGED <<bankvars, ret, histvars, mode, balReaders, lastIdsReaders,
                   pendingWriter, start, probe, accountant>>

\* apply_debits, lines 186-187: forget_signature_with_last_id, Err(InsufficientFunds)
Forget(t) ==
    /\ thr[t].pc = "forget"
    /\ LET tx == JobTx(t)
       IN /\ last_ids' = forget_signature_with_last_id(last_ids, tx.sig, tx.last_id)
          /\ thr' = [thr EXCEPT ![t] = Return(t, Err("InsufficientFunds", tx.from))]
    /\ balReaders' = balReaders \ {t}
    /\ UNCHANGED <<balances, pending, time_sources, last_time, transaction_count,
                   ret, histvars, mode, lastIdsReaders, pendingWriter, start, probe, accountant>>

\* a variant of the debit that subtracts from whatever the balance is now,
\* without comparing it with the value loaded
Cas_blind(t) ==
    /\ thr[t].pc = "cas"
    /\ balances' = [balances EXCEPT ![JobTx(t).from] = @ - JobTx(t).instruction.tokens]
    /\ thr' = [thr EXCEPT ![t].pc = "count"]
    /\ UNCHANGED <<pending, last_ids, time_sources, last_time, transaction_count,
                   ret, histvars, mode, balReaders, lastIdsReaders, pendingWriter, start, probe, accountant>>

\* apply_debits, lines 190-206: compare_exchange; on failure the loop starts over
Cas(t) ==
    /\ thr[t].pc = "cas"
    /\ LET tx == JobTx(t)
       IN IF balances[tx.from] = thr[t].cur
          THEN /\ balances' = [balances EXCEPT ![tx.from] = thr[t].cur - tx.instruction.tokens]
               /\ thr' = [thr EXCEPT ![t].pc = "count"]
          ELSE /\ thr' = [thr EXCEPT ![t].pc = "load"]
               /\ UNCHANGED balances
    /\ UNCHANGED <<pending, last_ids, time_sources, last_time, transaction_count,
                   ret, histvars, mode, balReaders, lastIdsReaders, pendingWriter, start, probe, accountant>>

\* a variant of the end of apply_debits that returns without dropping the
\* read guard on 'balances'
Count_keeps_guard(t) ==
    /\ thr[t].pc = "count"
    /\ transaction_count' = transaction_count + 1
    /\ thr' = [thr EXCEPT ![t].pc = "credit", ![t].res = Ok]
    /\ UNCHANGED <<balances, pending, last_ids, time_sources, last_time,
                   ret, histvars, mode, balReaders, lastIdsReaders, pendingWriter,
                   start, probe, accountant>>

\* apply_debits, lines 201-204: transaction_count.fetch_add(1), Ok(())
Count(t) ==
    /\ thr[t].pc = "count"
    /\ transaction_count' = transaction_count + 1
    /\ thr' = [thr EXCEPT ![t].pc = "credit", ![t].res = Ok]
    /\ balReaders' = balReaders \ {t}
    /\ UNCHANGED <<balances, pending, last_ids, time_sources, last_time,
                   ret, histvars, mode, lastIdsReaders, pendingWriter, start, probe, accountant>>

\* apply_credits, lines 211-218 and 227-232: the plan is reduced with the clock read
\* now; a witness instruction goes on in its handler
Credit(t) ==
    /\ thr[t].pc = "credit"
    /\ CreditsMayStart(t)
    /\ LET tx == JobTx(t)
           plan == apply_witness(tx.instruction.plan, WTimestamp(last_time))
       IN thr' = [thr EXCEPT ![t] =
                    CASE tx.instruction.kind = "ApplyTimestamp" ->
                            [thr[t] EXCEPT !.pc = "ts_genesis"]
                      [] tx.instruction.kind = "ApplySignature" ->
                            [thr[t] EXCEPT !.pc = "sig_lock"]
                      [] OTHER ->
                            IF has_final_payment(plan)
                            THEN [thr[t] EXCEPT !.pc = "pay_check", !.retpc = "done",
                                                !.pay = final_payment(plan)]
                            ELSE [thr[t] EXCEPT !.pc = "park", !.plan = plan]]
    /\ UNCHANGED <<bankvars, ret, histvars, mode, balReaders, lastIdsReaders,
                   pendingWriter, start, probe, accountant>>

\* apply_credits, lines 221-224: pending.insert(tx.sig, plan) under the write lock
Park(t) ==
    /\ thr[t].pc = "park"
    /\ pendingWriter = 0
    /\ pending' = MapPut(pending, JobTx(t).sig, thr[t].plan)
    /\ thr' = [thr EXCEPT ![t].pc = "done"]
    /\ UNCHANGED <<balances, last_ids, time_sources, last_time, transaction_count,
                   ret, histvars, mode, balReaders, lastIdsReaders, pendingWriter, start, probe, accountant>>

\* apply_payment, lines 73-77: contains_key under a read lock
PayCheck(t) ==
    /\ thr[t].pc = "pay_check"
    /\ thr' = [thr EXCEPT ![t].pc =
                  IF thr[t].pay.to \in DOMAIN balances THEN "pay_add" ELSE "pay_insert"]
    /\ UNCHANGED <<bankvars, ret, histvars, mode, balReaders, lastIdsReaders,
                   pendingWriter, start, probe, accountant>>

\* apply_payment, lines 78-79: fetch_add under a read lock
PayAdd(t) ==
    /\ thr[t].pc = "pay_add"
    /\ balances' = [balances EXCEPT ![thr[t].pay.to] = @ + thr[t].pay.tokens]
    /\ thr' = [thr EXCEPT ![t].pc = thr[t].retpc]
    /\ UNCHANGED <<pending, last_ids, time_sources, last_time, transaction_count,
                   ret, histvars, mode, balReaders, lastIdsReaders, pendingWriter, start, probe, accountant>>

\* a variant of the insert path that does not test for the key again under the
\* write lock
PayInsert_no_recheck(t) ==
    /\ thr[t].pc = "pay_insert"
    /\ balReaders = {}
    /\ balances' = MapPut(balances, thr[t].pay.to, thr[t].pay.tokens)
    /\ thr' = [thr EXCEPT ![t].pc = thr[t].retpc]
    /\ UNCHANGED <<pending, last_ids, time_sources, last_time, transaction_count,
                   ret, histvars, mode, balReaders, lastIdsReaders, pendingWriter, start, probe, accountant>>

\* apply_payment, lines 83-88: the write lock (no reader left), the second test,
\* fetch_add or insert
PayInsert(t) ==
    /\ thr[t].pc = "pay_insert"
    /\ balReaders = {}
    /\ balances' = apply_payment(balances, thr[t].pay)
    /\ thr' = [thr EXCEPT ![t].pc = thr[t].retpc]
    /\ UNCHANGED <<pending, last_ids, time_sources, last_time, transaction_count,
                   ret, histvars, mode, balReaders, lastIdsReaders, pendingWriter, start, probe, accountant>>

\* a variant of the signature handler that fills a vacant entry with an empty plan
SigLock_fills_vacant(t) ==
    /\ thr[t].pc = "sig_lock"
    /\ pendingWriter = 0
    /\ LET s == WitSig(t)
           plan == apply_witness(pending[s], WSignature(WitFrom(t)))
       IN IF s \notin DOMAIN pending
          THEN /\ thr' = [thr EXCEPT ![t] = Return(t, Ok)]
               /\ pending' = MapPut(pending, s, NoPlan)
               /\ UNCHANGED pendingWriter
          ELSE /\ pending' = [pending EXCEPT ![s] = plan]
               /\ IF has_final_payment(plan)
                  THEN /\ thr' = [thr EXCEPT ![t].pc = "pay_check",
                                             ![t].retpc = "sig_remove",
                                             ![t].pay = final_payment(plan)]
                       /\ pendingWriter' = t
                  ELSE /\ thr' = [thr EXCEPT ![t] = Return(t, Ok)]
                       /\ UNCHANGED pendingWriter
    /\ UNCHANGED <<balances, last_ids, time_sources, last_time, transaction_count,
                   ret, histvars, mode, balReaders, lastIdsReaders, start, probe, accountant>>

\* apply_signature, lines 278-285: the write lock on pending, the entry, the witness
SigLock(t) ==
    /\ thr[t].pc = "sig_lock"
    /\ pendingWriter = 0
    /\ LET s == WitSig(t)
           plan == apply_witness(pending[s], WSignature(WitFrom(t)))
       IN IF s \notin DOMAIN pending
          THEN /\ thr' = [thr EXCEPT ![t] = Return(t, Ok)]
               /\ UNCHANGED <<pending, pendingWriter>>
          ELSE /\ pending' = [pending EXCEPT ![s] = plan]
               /\ IF has_final_payment(plan)
                  THEN /\ thr' = [thr EXCEPT ![t].pc = "pay_check",
                                             ![t].retpc = "sig_remove",
                                             ![t].pay = final_payment(plan)]
                       /\ pendingWriter' = t
                  ELSE /\ thr' = [thr EXCEPT ![t] = Return(t, Ok)]
                       /\ UNCHANGED pendingWriter
    /\ UNCHANGED <<balances, last_ids, time_sources, last_time, transaction_count,
                   ret, histvars, mode, balReaders, lastIdsReaders, start, probe, accountant>>

\* apply_signature, lines 286-290: remove_entry, the lock is dropped
SigRemove(t) ==
    /\ thr[t].pc = "sig_remove"
    /\ pending' = MapRemove(pending, WitSig(t))
    /\ pendingWriter' = 0
    /\ thr' = [thr EXCEPT ![t] = Return(t, Ok)]
    /\ UNCHANGED <<balances, last_ids, time_sources, last_time, transaction_count,
                   ret, histvars, mode, balReaders, lastIdsReaders, start, probe, accountant>>

\* apply_timestamp, lines 297-301: is the clock still the zero instant?
TsGenesis(t) ==
    /\ thr[t].pc = "ts_genesis"
    /\ thr' = [thr EXCEPT ![t].pc =
                  IF last_time = ZeroInstant THEN "ts_install" ELSE "ts_trusted"]
    /\ UNCHANGED <<bankvars, ret, histvars, mode, balReaders, lastIdsReaders,
                   pendingWriter, start, probe, accountant>>

\* apply_timestamp, lines 302-305: the sender becomes a time source
TsInstall(t) ==
    /\ thr[t].pc = "ts_install"
    /\ time_sources' = time_sources \cup {WitFrom(t)}
    /\ thr' = [thr EXCEPT ![t].pc = "ts_trusted"]
    /\ UNCHANGED <<balances, pending, last_ids, last_time, transaction_count,
                   ret, histvars, mode, balReaders, lastIdsReaders, pendingWriter, start, probe, accountant>>

\* apply_timestamp, lines 308-318: is the sender a time source?
TsTrusted(t) ==
    /\ thr[t].pc = "ts_trusted"
    /\ thr' = [thr EXCEPT ![t] =
                  IF WitFrom(t) \in time_sources
                  THEN [thr[t] EXCEPT !.pc = "ts_read"]
                  ELSE Return(t, Ok)]
    /\ UNCHANGED <<bankvars, ret, histvars, mode, balReaders, lastIdsReaders,
                   pendingWriter, start, probe, accountant>>

\* apply_timestamp, line 313: dt > *last_time.read()
TsRead(t) ==
    /\ thr[t].pc = "ts_read"
    /\ thr' = [thr EXCEPT ![t].pc = IF WitDt(t) > last_time THEN "ts_write" ELSE "ts_lock"]
    /\ UNCHANGED <<bankvars, ret, histvars, mode, balReaders, lastIdsReaders,
                   pendingWriter, start, probe, accountant>>

\* apply_timestamp, line 314: *last_time.write() = dt
TsWrite(t) ==
    /\ thr[t].pc = "ts_write"
    /\ last_time' = WitDt(t)
    /\ thr' = [thr EXCEPT ![t].pc = "ts_lock"]
    /\ UNCHANGED <<balances, pending, last_ids, time_sources, transaction_count,
                   ret, histvars, mode, balReaders, lastIdsReaders, pendingWriter, start, probe, accountant>>

\* apply_timestamp, lines 321-327: the write lock on pending
TsLock(t) ==
    /\ thr[t].pc = "ts_lock"
    /\ pendingWriter = 0
    /\ pendingWriter' = t
    /\ thr' = [thr EXCEPT ![t].pc = "ts_sweep", ![t].todo = DOMAIN pending, ![t].comp = {}]
    /\ UNCHANGED <<bankvars, ret, histvars, mode, balReaders, lastIdsReaders, start, probe, accountant>>

\* apply_timestamp, lines 328-336: one plan of the iteration
TsSweep(t) ==
    /\ thr[t].pc = "ts_sweep"
    /\ \E key \in thr[t].todo :
          LET plan == apply_witness(pending[key], WTimestamp(last_time))
          IN /\ pending' = [pending EXCEPT ![key] = plan]
             /\ thr' = [thr EXCEPT ![t] =
                          IF has_final_payment(plan)
                          THEN [thr[t] EXCEPT !.todo = @ \ {key}, !.comp = @ \cup {key},
                                              !.pay = final_payment(plan),
                                              !.pc = "pay_check", !.retpc = "ts_sweep"]
                          ELSE [thr[t] EXCEPT !.todo = @ \ {key}]]
    /\ UNCHANGED <<balances, last_ids, time_sources, last_time, transaction_count,
                   ret, histvars, mode, balReaders, lastIdsReaders, pendingWriter, start, probe, accountant>>

\* apply_timestamp, line 336: the iteration is over
TsSweepEnd(t) ==
    /\ thr[t].pc = "ts_sweep"
    /\ thr[t].todo = {}
    /\ pendingWriter' = HeldAfterSweep(t)
    /\ thr' = [thr EXCEPT ![t].pc = "ts_remove"]
    /\ UNCHANGED <<bankvars, ret, histvars, mode, balReaders, lastIdsReaders, start, probe, accountant>>

\* apply_timestamp, lines 338-342: the completed keys are removed, the lock is dropped
TsRemove(t) ==
    /\ thr[t].pc = "ts_remove"
    /\ pendingWriter \in {0, t}
    /\ pending' = [k \in DOMAIN pending \ thr[t].comp |-> pending[k]]
    /\ pendingWriter' = 0
    /\ thr' = [thr EXCEPT ![t] = Return(t, Ok)]
    /\ UNCHANGED <<balances, last_ids, time_sources, last_time, transaction_count,
                   ret, histvars, mode, balReaders, lastIdsReaders, start, probe, accountant>>

\* register_entry_id, lines 151-157: under the write lock on last_ids (no reader left)
Register(t) ==
    /\ thr[t].pc = "reg"
    /\ lastIdsReaders = {}
    /\ last_ids' = register_entry_id(Bank, thr[t].job.h).last_ids
    /\ thr' = [thr EXCEPT ![t] = Return(t, Ok)]
    /\ UNCHANGED <<balances, pending, time_sources, last_time, transaction_count,
                   ret, histvars, mode, balReaders, lastIdsReaders, pendingWriter, start, probe, accountant>>

\* get_balance, lines 375-380: the read lock on balances, the lookup, the load;
\* the balance read is kept in cur, 0 standing for None as well
GetBalance(t) ==
    /\ thr[t].pc = "get_balance"
    /\ thr' = [thr EXCEPT ![t] =
                  [Return(t, Ok) EXCEPT !.cur =
                      IF thr[t].job.from \in DOMAIN balances
                      THEN balances[thr[t].job.from] ELSE 0]]
    /\ UNCHANGED <<bankvars, ret, histvars, mode, balReaders, lastIdsReaders,
                   pendingWriter, start, probe, accountant>>

\* the steps of thread t
ThreadNext(t) ==
        \/ DebitCheck(t) \/ ReserveFind(t) \/ ReserveCheck(t) \/ ReserveInsert(t)
        \/ Load(t) \/ Forget(t) \/ Cas(t) \/ Count(t)
        \/ Credit(t) \/ Park(t)
        \/ PayCheck(t) \/ PayAdd(t) \/ PayInsert(t)
        \/ SigLock(t) \/ SigRemove(t)
        \/ TsGenesis(t) \/ TsInstall(t) \/ TsTrusted(t) \/ TsRead(t) \/ TsWrite(t)
        \/ TsLock(t) \/ TsSweep(t) \/ TsSweepEnd(t) \/ TsRemove(t)
        \/ Register(t)
        \/ GetBalance(t)

ConcNext == \E t \in Thread : ThreadNext(t)

ConcSpec == ConcInit /\ [][ConcNext]_vars

\* ConcSpec under fair scheduling: a thread that can take a step, and goes on
\* being able to, takes one
ConcFairSpec == ConcSpec /\ \A t \in Thread : WF_vars(ThreadNext(t))

\* every call has returned
AllDone == \A t \in Thread : thr[t].pc = "done"

(***************************************************************************)
(* TxSpec: only process_transaction calls, of transactions that satisfy    *)
(* the transaction invariants (Transaction::verify_plan).                  *)
(***************************************************************************)
TxNext == \E tx \in Verified : ProcessTransaction(tx)

TxSpec == Init /\ [][TxNext]_vars

(***************************************************************************)
(* Sums.                                                                   *)
(***************************************************************************)
RECURSIVE SumOver(_, _)
SumOver(f, keys) ==
    IF keys = {} THEN 0
    ELSE LET k == CHOOSE x \in keys : TRUE IN f[k] + SumOver(f, keys \ {k})

\* the sum of all account balances
SumBalances == SumOver(balances, DOMAIN balances)

\* the tokens a parked plan holds: what it pays when it completes
PlanTokens(plan) == plan.p1.tokens

\* the sum of the tokens held by the plans of the pending table
SumPending == SumOver([k \in DOMAIN pending |-> PlanTokens(pending[k])], DOMAIN pending)

(***************************************************************************)
(* C1, as stated: conservation.  Under TxSpec, in every reachable state    *)
(* the account balances plus the tokens held by pending plans add up to    *)
(* the initial deposit.                                                    *)
(***************************************************************************)
C1_ConservationAsStated == SumBalances + SumPending = MintTokens

(***************************************************************************)
(* C1, amended: the fee of an admitted contract is debited with the        *)
(* contract's tokens and credited to nobody, so in every reachable state   *)
(* of TxSpec balances + tokens held by pending plans + fees of the         *)
(* admitted contracts = initial deposit.                                   *)
(***************************************************************************)
C1_ConservationWithFees == SumBalances + SumPending + burnt = MintTokens

\* a taxed transfer was admitted and a plan is parked
C1_Witness == burnt > 0 /\ DOMAIN pending # {} /\ ret = Ok

(***************************************************************************)
(* C2, as stated: no double spend.  Whenever process_transaction is called *)
(* with a transaction whose signature s was admitted before against its    *)
(* fingerprint fp, the call fails with DuplicateSignature(s) and no        *)
(* balance changes, whatever register_entry_id and witness calls were made *)
(* in between.                                                             *)
(***************************************************************************)
C2_NoDoubleSpendAsStated ==
    [][\A tx \in Transactions :
          (<<tx.sig, tx.last_id>> \in everAdmitted /\ ProcessTransaction(tx))
              => (ret' = Err("DuplicateSignature", tx.sig) /\ balances' = balances)]_vars

(***************************************************************************)
(* C2, amended: as long as the window entry against which s was admitted   *)
(* is resident and is the newest entry carrying fp (fp has not been        *)
(* registered again and the entry has not been evicted), a call of         *)
(* process_transaction with a transaction carrying s and fp fails with     *)
(* DuplicateSignature(s) and changes nothing of the bank.                  *)
(***************************************************************************)
C2_NoDoubleSpendWhileResident ==
    [][\A tx \in Transactions :
          (<<tx.sig, tx.last_id>> \in admitted /\ ProcessTransaction(tx))
              => (ret' = Err("DuplicateSignature", tx.sig) /\ UNCHANGED bankvars)]_vars

\* a replay has just been refused
C2_Witness ==
    \E tx \in Transactions :
        /\ <<tx.sig, tx.last_id>> \in admitted
        /\ ret = Err("DuplicateSignature", tx.sig)

(***************************************************************************)
(* C8, as stated: freshness.  Whenever process_transaction is called with  *)
(* a transaction bound to a fingerprint fp that no entry of the window     *)
(* carries (all of them evicted, or fp never registered), the call fails   *)
(* with LastIdNotFound(fp) and changes nothing of the bank.                *)
(***************************************************************************)
C8_FreshnessAsStated ==
    [][\A tx \in Transactions :
          (find_last_id(last_ids, tx.last_id) = 0 /\ ProcessTransaction(tx))
              => (ret' = Err("LastIdNotFound", tx.last_id) /\ UNCHANGED bankvars)]_vars

\* the error of the admission checks that come before the signature reservation
EarlierError(tx) ==
    IF tx.instruction.kind = "NewContract" /\ tx.instruction.tokens < 0
    THEN Err("NegativeTokens", "none")
    ELSE IF tx.from \notin DOMAIN balances
    THEN Err("AccountNotFound", tx.from)
    ELSE Ok

(***************************************************************************)
(* C8, amended: a transaction bound to a fingerprint fp that no entry of   *)
(* the window carries is always rejected and the rejection changes nothing *)
(* of the bank; the error is LastIdNotFound(fp) unless an earlier check    *)
(* fails, in which case it is that check's error: NegativeTokens for a     *)
(* NewContract with negative tokens, else AccountNotFound(from) for a      *)
(* sender without a balance entry.                                         *)
(***************************************************************************)
C8_FreshnessAfterEarlierChecks ==
    [][\A tx \in Transactions :
          (find_last_id(last_ids, tx.last_id) = 0 /\ ProcessTransaction(tx))
              => /\ ret' = IF EarlierError(tx) # Ok THEN EarlierError(tx)
                           ELSE Err("LastIdNotFound", tx.last_id)
                 /\ UNCHANGED bankvars]_vars

\* a transaction bound to the evicted fingerprint of the mint has been refused
C8_Witness ==
    /\ ret = Err("LastIdNotFound", "h0")
    /\ find_last_id(last_ids, "h0") = 0

(***************************************************************************)
(* C9: witness monotonicity.  Once a witness call has completed a pending  *)
(* plan (the plan reduced to a payment, which was credited), every later   *)
(* call of the same witness - apply_timestamp by the same sender with the  *)
(* same or a smaller time, apply_signature by the same signer for the same *)
(* transaction signature - changes no account balance.  (A witness is      *)
(* forgotten by the history when the plan's own transaction is admitted    *)
(* anew: the plan it then completes is another one.)                       *)
(***************************************************************************)
C9_WitnessMonotonicity ==
    [][\A c \in completed :
          /\ \A dt \in Time :
                (c.w.kind = "Timestamp" /\ dt <= c.w.dt /\ ApplyTimestampCall(c.w.from, dt))
                    => balances' = balances
          /\ (c.w.kind = "Signature" /\ ApplySignatureCall(c.w.from, c.w.key))
                    => balances' = balances]_vars

\* a plan was parked, completed by a witness, and its entry is gone
C9_Witness ==
    \E c \in completed :
        /\ c.key \notin DOMAIN pending
        /\ <<c.key, TxOf(c.key).last_id>> \in everAdmitted

(***************************************************************************)
(* C10: a rejected transaction leaves the engine state unchanged.  When    *)
(* process_transaction returns NegativeTokens, AccountNotFound,            *)
(* DuplicateSignature, LastIdNotFound or InsufficientFunds, the balances,  *)
(* the pending table, every sig-set of the window, the clock, the time     *)
(* sources and transaction_count are what they were before the call.       *)
(***************************************************************************)
C10_RejectedLeavesStateUnchanged ==
    [][\A tx \in Transactions :
          (/\ ProcessTransaction(tx)
           /\ ret'.err \in {"NegativeTokens", "AccountNotFound", "DuplicateSignature",
                            "LastIdNotFound", "InsufficientFunds"})
              => UNCHANGED <<balances, pending, last_ids, time_sources, last_time,
                             transaction_count>>]_vars

\* a transaction was refused for insufficient funds, after its signature was reserved
C10_Witness == ret.err = "InsufficientFunds"

(***************************************************************************)
(* C3, as stated: concurrent replay.  Under ConcSpec, when both threads    *)
(* submit the same transaction, whose fingerprint is resident, and both    *)
(* calls have returned: an admitted call means the other call failed with  *)
(* DuplicateSignature (so at most one is admitted), and the sender was     *)
(* debited at most once.                                                   *)
(***************************************************************************)
SameTransaction ==
    /\ thr[1].job.op = "tx"
    /\ thr[2].job = thr[1].job
    /\ find_last_id(start.last_ids, JobTx(1).last_id) # 0

C3_ConcurrentReplayAsStated ==
    (SameTransaction /\ AllDone) =>
        /\ \A t \in Thread, u \in Thread :
              (t # u /\ thr[t].res = Ok) => thr[u].res.err = "DuplicateSignature"
        /\ LET tx == JobTx(1)
           IN (/\ tx.instruction.kind = "NewContract"
               /\ tx.instruction.tokens >= 0
               /\ tx.from \in DOMAIN start.balances) =>
                 balances[tx.from] >= start.balances[tx.from] - tx.instruction.tokens

(***************************************************************************)
(* C4: double-credit exclusion.  Under ConcSpec, when both threads run     *)
(* witness handlers (apply_timestamp, apply_signature, called directly or  *)
(* for a witness transaction) on the plans parked at the start: the tokens *)
(* credited never exceed one payment per parked plan; whenever no handler  *)
(* holds the lock on 'pending' the tokens credited are exactly the         *)
(* payments of the plans that were removed (a plan paid is a plan removed, *)
(* once each); and a handler about to remove entries finds them present.   *)
(***************************************************************************)
WitnessJob(t) ==
    \/ thr[t].job.op \in {"ts", "sig"}
    \/ thr[t].job.op = "tx" /\ JobTx(t).instruction.kind # "NewContract"

StartTokens(keys) == SumOver([k \in DOMAIN start.pending |-> PlanTokens(start.pending[k])], keys)

C4_DoubleCreditExclusion ==
    (\A t \in Thread : WitnessJob(t)) =>
        LET credited == SumBalances - SumOver(start.balances, DOMAIN start.balances)
        IN /\ credited <= StartTokens(DOMAIN start.pending)
           /\ pendingWriter = 0 =>
                 credited = StartTokens(DOMAIN start.pending \ DOMAIN pending)
           /\ \A t \in Thread :
                 /\ thr[t].pc = "sig_remove" => WitSig(t) \in DOMAIN pending
                 /\ thr[t].pc = "ts_remove" => thr[t].comp \subseteq DOMAIN pending

\* the timestamp call has paid the plan of s3 and not yet removed it, and the
\* signature call that would complete the same plan waits for the lock
C4_Witness ==
    /\ thr[1].job = TsJob("mint", 1)
    /\ thr[1].pc = "ts_remove"
    /\ "s3" \in thr[1].comp
    /\ thr[2].job = SigJob("mint", "s3")
    /\ thr[2].pc = "sig_lock"
    /\ "s3" \in DOMAIN pending
    /\ has_final_payment(pending["s3"])
    /\ pendingWriter = 1

(***************************************************************************)
(* C5, as stated: timestamp monotonicity.  Under ConcSpec, where two       *)
(* apply_timestamp calls may run at the same time, no step takes the       *)
(* engine clock last_time to a smaller value.                              *)
(***************************************************************************)
C5_ClockNeverDecreasesAsStated == [][last_time' >= last_time]_vars

(***************************************************************************)
(* C6: debits before credits.  Under ConcSpec, in a process_transactions   *)
(* batch: while the apply_debits of some transaction of the batch is still *)
(* running no credit has been applied (no account was created or raised,   *)
(* the pending table and the clock are as at the start); and when the      *)
(* batch is done, a transaction whose sender had no account or too few     *)
(* tokens at the start was rejected, whatever the batch paid to that       *)
(* sender, and transaction_count rose by the number of accepted            *)
(* transactions only.                                                      *)
(***************************************************************************)
Unfunded(tx) ==
    \/ tx.from \notin DOMAIN start.balances
    \/ /\ tx.instruction.kind = "NewContract"
       /\ start.balances[tx.from] < tx.instruction.tokens

C6_DebitsBeforeCredits ==
    mode = "batch" =>
        /\ (\E t \in Thread : thr[t].pc \in DebitPcs) =>
              /\ DOMAIN balances = DOMAIN start.balances
              /\ \A k \in DOMAIN balances : balances[k] <= start.balances[k]
              /\ pending = start.pending
              /\ last_time = start.last_time
        /\ AllDone =>
              /\ \A t \in Thread : Unfunded(JobTx(t)) => thr[t].res # Ok
              /\ transaction_count =
                    start.transaction_count + Cardinality({t \in Thread : thr[t].res = Ok})

\* test_debits_before_credits: the batch pays alice 2 and spends 1 from alice;
\* the first is accepted, the second is rejected for want of an account
C6_Witness ==
    /\ mode = "batch"
    /\ AllDone
    /\ thr[1].job = TxJob("s1")
    /\ thr[2].job = TxJob("s4")
    /\ thr[1].res = Ok
    /\ thr[2].res = Err("AccountNotFound", "alice")
    /\ balances = [mint |-> start.balances["mint"] - 2, alice |-> 2]
    /\ transaction_count = start.transaction_count + 1

(***************************************************************************)
(* C7, as stated: batch isolation.  Under ConcSpec, when the batch of the  *)
(* two threads' transactions is done, the balances and the multiset of the *)
(* two outcomes are those of the batch with the two transactions swapped,  *)
(* run from the same start in position order.                              *)
(***************************************************************************)
C7_BatchIsolationAsStated ==
    (mode = "batch" /\ AllDone) =>
        LET swapped == process_transactions(start, <<JobTx(2), JobTx(1)>>)
        IN /\ balances = swapped.bank.balances
           /\ \/ thr[1].res = swapped.results[2] /\ thr[2].res = swapped.results[1]
              \/ thr[1].res = swapped.results[1] /\ thr[2].res = swapped.results[2]

(***************************************************************************)
(* C11: no negative balances.  Under ConcSpec, where two debits of one     *)
(* account may run at the same time and the transactions pass verify_plan  *)
(* (all but s5, refused for its negative tokens), every account balance is *)
(* >= 0 in every reachable state.                                          *)
(***************************************************************************)
C11_NoNegativeBalances == \A k \in DOMAIN balances : balances[k] >= 0

\* two debits of mint run together: thread 1 loaded 2, thread 2 has debited 1
\* since, and thread 1 is about to compare-exchange against the stale 2
C11_Witness ==
    /\ thr[1].job = TxJob("s1")
    /\ thr[2].job = TxJob("s2")
    /\ thr[1].pc = "cas"
    /\ thr[1].cur = 2
    /\ balances["mint"] = 1
    /\ \A t \in Thread : verify_plan(JobTx(t))

(***************************************************************************)
(* C12, as stated: pending entries are never re-inserted.  Under Spec, no  *)
(* admission inserts into the pending table a signature that was inserted  *)
(* before, nor one that is a key of the table now.                         *)
(***************************************************************************)
C12_NeverReinsertedAsStated ==
    [][\A tx \in Transactions :
          (ProcessTransaction(tx) /\ ret' = Ok /\ Parks(Bank, tx)) =>
              (tx.sig \notin parked /\ tx.sig \notin DOMAIN pending)]_vars

(***************************************************************************)
(* C12, amended: under Spec, a signature that was inserted into the        *)
(* pending table before is inserted again only when the entry against      *)
(* which it was admitted is no longer the newest resident entry of its     *)
(* fingerprint (it was evicted, or the fingerprint was registered again).  *)
(***************************************************************************)
C12_NeverReinsertedWhileResident ==
    [][\A tx \in Transactions :
          (/\ ProcessTransaction(tx)
           /\ ret' = Ok
           /\ Parks(Bank, tx)
           /\ (tx.sig \in parked \/ tx.sig \in DOMAIN pending)) =>
              <<tx.sig, tx.last_id>> \notin admitted]_vars

\* the postdated transfer s3 is parked, its admission is resident, and its
\* second submission was refused
C12_Witness ==
    /\ parked = {"s3"}
    /\ "s3" \in DOMAIN pending
    /\ <<"s3", "h0">> \in admitted
    /\ ret = Err("DuplicateSignature", "s3")

Conditions ==
    {CTimestamp(dt) : dt \in Time} \cup {CSignature(k) : k \in PublicKey}

Witnesses ==
    {WTimestamp(dt) : dt \in Time} \cup {WSignature(k) : k \in PublicKey}

PlanPayments == {Payment(n, "alice") : n \in 0..MintTokens}

Plans ==
    {Pay(p) : p \in PlanPayments}
    \cup {After(c, p) : c \in Conditions, p \in PlanPayments}
    \cup {Race(c1, p1, c2, p2) : c1 \in Conditions, p1 \in PlanPayments,
                                 c2 \in Conditions, p2 \in PlanPayments}

PlanTransactions ==
    {new_from_instruction("p", "mint", NewContract(tokens, plan), "h0", fee) :
        tokens \in 0..MintTokens, plan \in Plans, fee \in (-1)..MintTokens}
    \cup {new_timestamp("p", "mint", dt, "h0") : dt \in Time}
    \cup {new_signature("p", "mint", tx_sig, "h0") : tx_sig \in Signature}

PlanInit ==
    /\ balances = new_bank("mint", MintTokens, "h0").balances
    /\ pending = new_bank("mint", MintTokens, "h0").pending
    /\ last_ids = new_bank("mint", MintTokens, "h0").last_ids
    /\ time_sources = new_bank("mint", MintTokens, "h0").time_sources
    /\ last_time = new_bank("mint", MintTokens, "h0").last_time
    /\ transaction_count = new_bank("mint", MintTokens, "h0").transaction_count
    /\ ret = NoRet
    /\ burnt = 0
    /\ admitted = {}
    /\ everAdmitted = {}
    /\ completed = {}
    /\ parked = {}
    /\ Quiet
    /\ start = new_bank("mint", MintTokens, "h0")
    /\ \E tx \in PlanTransactions : probe = [tx |-> tx, plan |-> tx.instruction.plan]
    /\ accountant = NoAccountant

\* plan.apply_witness(&w) on the contract's plan
ProbeWitness(w) ==
    /\ probe.tx.instruction.kind = "NewContract"
    /\ probe' = [probe EXCEPT !.plan = apply_witness(@, w)]
    /\ UNCHANGED <<bankvars, ret, histvars, thr, mode, balReaders, lastIdsReaders,
                   pendingWriter, start, accountant>>

PlanNext == \E w \in Witnesses : ProbeWitness(w)

PlanSpec == PlanInit /\ [][PlanNext]_vars

\* the plans a plan reduces to under the sequences of witnesses
Reduce(plans) == plans \cup {apply_witness(q, w) : q \in plans, w \in Witnesses}

RECURSIVE Reachable(_)
Reachable(plans) == IF Reduce(plans) = plans THEN plans ELSE Reachable(Reduce(plans))

\* the terminal payments of a plan: the payments of the Pay plans it reduces to
TerminalPayments(plan) ==
    {final_payment(q) : q \in {r \in Reachable({plan}) : has_final_payment(r)}}

\* the payments a plan names
NamedPayments(plan) ==
    IF plan.kind = "Race" THEN {plan.p1, plan.p2} ELSE {plan.p1}

\* fee and terminal payments of a contract transaction are exact
Exact(tx) ==
    /\ tx.fee >= 0
    /\ tx.fee <= tx.instruction.tokens
    /\ \A p \in TerminalPayments(tx.instruction.plan) :
          p.tokens = tx.instruction.tokens - tx.fee

(***************************************************************************)
(* C14, as stated: plan exactness.  Under PlanSpec, for a NewContract      *)
(* transaction verify_plan is true if and only if the fee is within 0 and  *)
(* the tokens and every terminal payment the plan reduces to under any     *)
(* sequence of witnesses has tokens - fee; for a witness instruction       *)
(* verify_plan is true.                                                    *)
(***************************************************************************)
C14_PlanExactnessAsStated ==
    IF probe.tx.instruction.kind = "NewContract"
    THEN verify_plan(probe.tx) <=> Exact(probe.tx)
    ELSE verify_plan(probe.tx)

(***************************************************************************)
(* C14, amended: under PlanSpec, for a NewContract transaction verify_plan *)
(* implies that the fee is in range and that every terminal payment,       *)
(* the one the current reduction has reached included, has tokens - fee;   *)
(* the converse holds when every payment the plan names is a terminal      *)
(* payment (no branch of a Race is shadowed by the other); for a witness   *)
(* instruction verify_plan is true.                                        *)
(***************************************************************************)
C14_PlanExactnessSound ==
    LET tx == probe.tx
    IN IF tx.instruction.kind = "NewContract"
       THEN /\ verify_plan(tx) =>
                 /\ Exact(tx)
                 /\ has_final_payment(probe.plan) =>
                       final_payment(probe.plan).tokens = tx.instruction.tokens - tx.fee
            /\ (/\ Exact(tx)
                /\ NamedPayments(tx.instruction.plan)
                      \subseteq TerminalPayments(tx.instruction.plan)) =>
                 verify_plan(tx)
       ELSE verify_plan(tx)

\* test_transfer_with_fee in a Race: a verified contract of 2 tokens with fee 1
\* whose plan a witness has reduced to its payment of 1
C14_Witness ==
    /\ probe.tx.instruction.kind = "NewContract"
    /\ probe.tx.instruction.plan.kind = "Race"
    /\ probe.tx.instruction.tokens = 2
    /\ probe.tx.fee = 1
    /\ verify_plan(probe.tx)
    /\ has_final_payment(probe.plan)
    /\ final_payment(probe.plan).tokens = 1

(***************************************************************************)
(* C15, as stated: genesis trust.  Under Spec, the set of time sources is  *)
(* empty initially; the first timestamp processed, by a direct call or by  *)
(* an admitted ApplyTimestamp transaction, makes its sender the only       *)
(* source; and once the set is not empty no step changes it.               *)
(***************************************************************************)
C15_GenesisTrustAsStated ==
    /\ time_sources = {}
    /\ [][/\ \A from \in PublicKey, dt \in Time :
                (time_sources = {} /\ ApplyTimestampCall(from, dt)) =>
                    time_sources' = {from}
          /\ \A tx \in Transactions :
                (/\ time_sources = {}
                 /\ tx.instruction.kind = "ApplyTimestamp"
                 /\ ProcessTransaction(tx)
                 /\ ret' = Ok) => time_sources' = {tx.from}
          /\ time_sources # {} => time_sources' = time_sources]_vars

\* some thread registers a fingerprint in this step
RegisterStep == \E t \in Thread : Register(t)

\* the entries that stay in the window over a registration keep their sig-sets
SurvivorsKept ==
    IF Len(last_ids') = Len(last_ids) + 1
    THEN \A i \in 1..Len(last_ids) : last_ids'[i] = last_ids[i]
    ELSE \A i \in 2..Len(last_ids) : last_ids'[i - 1] = last_ids[i]

(***************************************************************************)
(* C16, as stated: sig-sets grow monotonically.  Under ConcSpec, a         *)
(* registration leaves the sig-sets of the entries that stay resident as   *)
(* they are, and no other step removes a signature from the sig-set of a   *)
(* resident entry.                                                         *)
(***************************************************************************)
C16_SigSetMonotoneAsStated ==
    [][IF RegisterStep THEN SurvivorsKept
       ELSE \A i \in 1..Len(last_ids) : last_ids[i].sigs \subseteq last_ids'[i].sigs]_vars

(***************************************************************************)
(* C16, amended: under ConcSpec, a registration leaves the sig-sets of the *)
(* entries that stay resident as they are, and the only other step that    *)
(* removes anything from a resident sig-set is the rollback of an          *)
(* apply_debits call that is refusing its transaction for insufficient     *)
(* funds: it removes that transaction's signature, which the call itself   *)
(* inserted, from the entry of that transaction's fingerprint.             *)
(***************************************************************************)
C16_SigSetShrinksOnlyByRollback ==
    [][IF RegisterStep THEN SurvivorsKept
       ELSE \A i \in 1..Len(last_ids) :
               \/ last_ids[i].sigs \subseteq last_ids'[i].sigs
               \/ \E t \in Thread :
                     /\ Forget(t)
                     /\ thr'[t].res = Err("InsufficientFunds", JobTx(t).from)
                     /\ last_ids[i].id = JobTx(t).last_id
                     /\ last_ids[i].sigs \ last_ids'[i].sigs = {JobTx(t).sig}]_vars

\* the transfer s1 was refused for insufficient funds and its signature is
\* gone from the sig-set that had held it, while the parked s3 stays
C16_Witness ==
    /\ thr[1].job = TxJob("s1")
    /\ thr[1].res = Err("InsufficientFunds", "mint")
    /\ last_ids[1].id = "h0"
    /\ "s1" \notin last_ids[1].sigs
    /\ "s3" \in last_ids[1].sigs

\* the fingerprints of the window, oldest first
WindowIds(ids) == [i \in 1..Len(ids) |-> ids[i].id]

(***************************************************************************)
(* C17: bounded FIFO window.  Under Spec, the window never holds more than *)
(* MAX_ENTRY_IDS entries; register_entry_id appends the new fingerprint    *)
(* with an empty sig-set at the young end, dropping exactly the oldest     *)
(* entry, sig-set included, when the window is at capacity and nothing     *)
(* otherwise; every fingerprint of the window can then be reserved         *)
(* against; and no other operation changes which fingerprints the window   *)
(* holds or their order.                                                   *)
(***************************************************************************)
C17_BoundedFifoWindow ==
    /\ [](Len(last_ids) <= MAX_ENTRY_IDS)
    /\ [][IF \E h \in Hash : RegisterEntryId(h)
          THEN \A h \in Hash :
                  RegisterEntryId(h) =>
                      /\ last_ids' =
                            Append(IF Len(last_ids) = MAX_ENTRY_IDS
                                   THEN SubSeq(last_ids, 2, Len(last_ids))
                                   ELSE last_ids,
                                   [id |-> h, sigs |-> {}])
                      /\ \A i \in 1..Len(last_ids') :
                            reserve_signature_with_last_id(
                                last_ids', "fresh", last_ids'[i].id).res = Ok
          ELSE WindowIds(last_ids') = WindowIds(last_ids)]_vars

\* test_max_entry_ids: the window is full of later registrations, the mint's
\* fingerprint h0 was evicted, and a transaction bound to it was refused
C17_Witness ==
    /\ Len(last_ids) = MAX_ENTRY_IDS
    /\ find_last_id(last_ids, "h0") = 0
    /\ ret = Err("LastIdNotFound", "h0")

(***************************************************************************)
(* C18: a signature witness on an absent entry is a no-op.  Under          *)
(* ConcSpec, when apply_signature (called directly or for an               *)
(* ApplySignature transaction) finds no entry for its signature in the     *)
(* pending table, the call returns Ok in that step and balances, pending   *)
(* table, fingerprint window, time sources, clock and transaction_count    *)
(* are unchanged.                                                          *)
(***************************************************************************)
C18_AbsentSignatureNoOp ==
    [][\A t \in Thread :
          (SigLock(t) /\ WitSig(t) \notin DOMAIN pending) =>
              /\ UNCHANGED bankvars
              /\ thr'[t].pc = "done"
              /\ thr'[t].res = Ok]_vars

\* test_cancel_transfer: two apply_signature(mint, s3) calls on the parked s3;
\* both returned, the plan was paid back once and its entry is gone, so the
\* later of the two found no entry
C18_Witness ==
    /\ thr[1].job = SigJob("mint", "s3")
    /\ thr[2].job = SigJob("mint", "s3")
    /\ AllDone
    /\ "s3" \in DOMAIN start.pending
    /\ "s3" \notin DOMAIN pending
    /\ balances = [mint |-> start.balances["mint"] + PlanTokens(start.pending["s3"])]
    /\ transaction_count = start.transaction_count
    /\ \A t \in Thread : thr[t].res = Ok

(***************************************************************************)
(* EntrySpec: process_entries calls on lists of one or two entries; the    *)
(* first entry has up to two transactions, the second up to one.           *)
(***************************************************************************)
\* entry::Entry, as process_entries uses it: the fingerprint and the transactions
Entry(id, transactions) == [id |-> id, transactions |-> transactions]

\* the transactions of the entries: one bound to the registered h0, and two
\* bound to h1, one of them sent by alice
EntryTransactions ==
    {TxOf("s1"), TxOf("s8"), new("s10", "alice", "mint", 1, "h1")}

ShortBatches == {<<>>} \cup {<<a>> : a \in EntryTransactions}

EntryBatches ==
    ShortBatches \cup {<<a, b>> : a \in EntryTransactions, b \in EntryTransactions}

Entries == {Entry(id, txs) : id \in Hash, txs \in EntryBatches}

ShortEntries == {Entry(id, txs) : id \in Hash, txs \in ShortBatches}

EntryLists ==
    {<<e>> : e \in Entries} \cup {<<e1, e2>> : e1 \in Entries, e2 \in ShortEntries}

\* process_entries(entries)
ProcessEntriesCall(entries, backwards) ==
    /\ transaction_count < MaxCount
    /\ LET r == process_entries(Bank, entries, backwards)
       IN /\ SetBank(r.bank)
          /\ ret' = r.res
    /\ UNCHANGED <<histvars, concvars>>

EntryNext == \E entries \in EntryLists, backwards \in BOOLEAN :
                ProcessEntriesCall(entries, backwards)

EntrySpec == Init /\ [][EntryNext]_vars

\* the transactions of entry that are bound to the entry's own fingerprint,
\* when no entry of the window of b carries it
BoundToOwn(b, entry) ==
    IF find_last_id(b.last_ids, entry.id) # 0 THEN {}
    ELSE {i \in 1..Len(entry.transactions) : entry.transactions[i].last_id = entry.id}

\* process_entries on entries went as far as the first entry with a rejected
\* transaction: every entry before it was processed and then registered, that
\* entry was processed and not registered, nothing after it was touched, and
\* the error is its first by position
RECURSIVE StopsAtFirstError(_, _, _, _)
StopsAtFirstError(b, entries, backwards, out) ==
    IF entries = <<>> THEN out = [bank |-> b, res |-> Ok]
    ELSE LET entry == Head(entries)
             r == process_transactions_scheduled(b, entry.transactions, backwards)
         IN IF first_error(r.results) # Ok
            THEN /\ out.res = first_error(r.results)
                 /\ out.bank = r.bank
                 /\ WindowIds(out.bank.last_ids) = WindowIds(b.last_ids)
            ELSE StopsAtFirstError(register_entry_id(r.bank, entry.id),
                                   Tail(entries), backwards, out)

(***************************************************************************)
(* C19, as stated: registration after processing.  In every reachable      *)
(* state of EntrySpec, for every list of entries and either schedule: a    *)
(* transaction of the first entry bound to that entry's own fingerprint,   *)
(* which no entry of the window carries, is rejected with LastIdNotFound   *)
(* and process_entries fails; and process_entries stops at the first entry *)
(* with a rejected transaction, returning that entry's first error without *)
(* registering its fingerprint and without processing later entries.       *)
(***************************************************************************)
C19_RegisterAfterProcessingAsStated ==
    \A entries \in EntryLists, backwards \in BOOLEAN :
        LET entry == entries[1]
            r == process_transactions_scheduled(Bank, entry.transactions, backwards)
            out == process_entries(Bank, entries, backwards)
        IN /\ \A i \in BoundToOwn(Bank, entry) :
                 /\ r.results[i] = Err("LastIdNotFound", entry.id)
                 /\ out.res # Ok
           /\ StopsAtFirstError(Bank, entries, backwards, out)

(***************************************************************************)
(* C19, amended: as above, but the error of the transaction bound to the   *)
(* entry's own unregistered fingerprint is LastIdNotFound unless one of    *)
(* the checks that come before the fingerprint lookup fails (NegativeTokens*)
(* or AccountNotFound), in which case it is that check's error.            *)
(***************************************************************************)
C19_RegisterAfterProcessing ==
    \A entries \in EntryLists, backwards \in BOOLEAN :
        LET entry == entries[1]
            r == process_transactions_scheduled(Bank, entry.transactions, backwards)
            out == process_entries(Bank, entries, backwards)
        IN /\ \A i \in BoundToOwn(Bank, entry) :
                 /\ r.results[i] =
                       IF EarlierError(entry.transactions[i]) # Ok
                       THEN EarlierError(entry.transactions[i])
                       ELSE Err("LastIdNotFound", entry.id)
                 /\ out.res # Ok
           /\ StopsAtFirstError(Bank, entries, backwards, out)

\* a process_entries call was refused with LastIdNotFound for h1: the window
\* still holds h0 alone, so neither the refused entry nor a later one was
\* registered
C19_Witness ==
    /\ ret = Err("LastIdNotFound", "h1")
    /\ WindowIds(last_ids) = <<"h0">>
    /\ BoundToOwn(Bank, Entry("h1", <<TxOf("s8")>>)) = {1}

(***************************************************************************)
(* C20: deadlock freedom.  Under ConcFairSpec, two concurrent calls (of    *)
(* process_transaction or together one process_transactions batch,         *)
(* apply_timestamp, apply_signature, register_entry_id, get_balance), each *)
(* scheduled fairly, both eventually return: no wait for a lock lasts for  *)
(* ever and the compare-exchange loop of apply_debits ends.                *)
(***************************************************************************)
C20_DeadlockFreedom == <>AllDone

\* thread 1 holds the write lock on 'pending' in apply_timestamp and waits for
\* the write lock on 'balances' to create the payee's account, while thread 2
\* holds a read lock on 'balances' in apply_debits
C20_Witness ==
    /\ thr[1].job.op = "ts"
    /\ thr[1].pc = "pay_insert"
    /\ pendingWriter = 1
    /\ thr[2].job.op = "tx"
    /\ balReaders = {2}
    /\ ~ENABLED ThreadNext(1)


(***************************************************************************)
(* C21: the order of the admission checks.                                 *)
(***************************************************************************)
\* transactions that fail several admission checks at once, beside the
\* catalogue: a negative transfer and a timestamp from alice, bound to h1
AdmissionCases ==
    Transactions
    \cup {new("s11", "alice", "mint", -1, "h1"), new_timestamp("s12", "alice", 1, "h1")}

\* the error of the first check that tx fails at bank b, in the order
\* NegativeTokens, AccountNotFound, LastIdNotFound, DuplicateSignature,
\* InsufficientFunds; Ok when it fails none
FirstFailingCheck(b, tx) ==
    LET ins == tx.instruction
        i == find_last_id(b.last_ids, tx.last_id)
    IN IF ins.kind = "NewContract" /\ ins.tokens < 0
       THEN Err("NegativeTokens", "none")
       ELSE IF tx.from \notin DOMAIN b.balances
       THEN Err("AccountNotFound", tx.from)
       ELSE IF i = 0
       THEN Err("LastIdNotFound", tx.last_id)
       ELSE IF tx.sig \in b.last_ids[i].sigs
       THEN Err("DuplicateSignature", tx.sig)
       ELSE IF ins.kind = "NewContract" /\ b.balances[tx.from] < ins.tokens
       THEN Err("InsufficientFunds", tx.from)
       ELSE Ok

\* the sig-sets that hold sig
Holders(ids, sig) == {i \in 1..Len(ids) : sig \in ids[i].sigs}

(***************************************************************************)
(* C21: in every reachable state, for every transaction, apply_debits      *)
(* returns the error of the first failing check in the order               *)
(* NegativeTokens, AccountNotFound, LastIdNotFound, DuplicateSignature,    *)
(* InsufficientFunds (Ok when none fails); a transaction rejected with     *)
(* NegativeTokens or AccountNotFound is added to no sig-set; and one       *)
(* rejected with InsufficientFunds is not left in the sig-set it was       *)
(* reserved in, nor in any sig-set it was not in before.                   *)
(***************************************************************************)
C21_AdmissionCheckOrder ==
    \A tx \in AdmissionCases :
        LET d == apply_debits(Bank, tx)
        IN /\ d.res = FirstFailingCheck(Bank, tx)
           /\ d.res.err \in {"NegativeTokens", "AccountNotFound"} =>
                 Holders(d.bank.last_ids, tx.sig) = Holders(last_ids, tx.sig)
           /\ d.res.err = "InsufficientFunds" =>
                 /\ find_last_id(d.bank.last_ids, tx.last_id) \notin
                       Holders(d.bank.last_ids, tx.sig)
                 /\ Holders(d.bank.last_ids, tx.sig) = Holders(last_ids, tx.sig)

\* the transfer s4 from alice, who has no account, was rejected with
\* AccountNotFound in a state where its fingerprint h0 has left the window as
\* well: of the two failing checks the account check came first
C21_Witness ==
    /\ ret = Err("AccountNotFound", "alice")
    /\ find_last_id(last_ids, "h0") = 0
    /\ FirstFailingCheck(Bank, TxOf("s4")) = ret


(***************************************************************************)
(* C22: what the admission of a NewContract does.                          *)
(***************************************************************************)
\* the payment a plan yields at once when the engine clock stands at now: the
\* payment of an unconditional Pay, or of the first branch whose Timestamp
\* condition is not after now; NoPay when there is none
ImmediatePayment(plan, now) ==
    IF plan.kind = "Pay" THEN plan.p1
    ELSE IF plan.c1.kind = "Timestamp" /\ plan.c1.dt <= now THEN plan.p1
    ELSE IF plan.kind = "Race" /\ plan.c2.kind = "Timestamp" /\ plan.c2.dt <= now
    THEN plan.p2
    ELSE NoPay

(***************************************************************************)
(* C22: every process_transaction that admits a NewContract debits the     *)
(* sender contract.tokens; if the plan is an unconditional Pay or has a    *)
(* Timestamp condition not after the engine clock, its payment is credited *)
(* in the same call and the pending table is left as it was; otherwise no  *)
(* account is credited, and the pending table gains the entry keyed by the *)
(* transaction's signature and changes in nothing else.                    *)
(***************************************************************************)
C22_AdmissionOfNewContract ==
    [][\A tx \in Transactions :
          (/\ tx.instruction.kind = "NewContract"
           /\ transaction_count' = transaction_count + 1
           /\ ret' = Ok
           /\ ProcessTransaction(tx)) =>
             LET ins == tx.instruction
                 debited == [balances EXCEPT ![tx.from] = @ - ins.tokens]
                 payment == ImmediatePayment(ins.plan, last_time)
             IN IF payment # NoPay
                THEN /\ balances' = apply_payment(debited, payment)
                     /\ pending' = pending
                ELSE /\ balances' = debited
                     /\ tx.sig \in DOMAIN pending'
                     /\ pending' = MapPut(pending, tx.sig, pending'[tx.sig])
                     /\ ~has_final_payment(pending'[tx.sig])]_vars

\* test_transfer_after_date: the postdated transfer s3 was admitted when the
\* clock had reached its date; alice was paid at once and s3 never entered
\* the pending table
C22_Witness ==
    /\ <<"s3", "h0">> \in everAdmitted
    /\ "s3" \notin parked
    /\ last_time >= 1
    /\ pending = EmptyMap
    /\ "alice" \in DOMAIN balances
    /\ balances["alice"] = 1


(***************************************************************************)
(* C23: cancellation of a postdated transfer.                              *)
(***************************************************************************)
\* plan is the plan of Transaction::new_on_date by sender: a Race of a
\* Timestamp condition paying the recipient and the sender's Signature paying
\* the sender
IsPostdated(plan, sender) ==
    /\ plan.kind = "Race"
    /\ plan.c1.kind = "Timestamp"
    /\ plan.c2 = CSignature(sender)
    /\ plan.p2.to = sender
    /\ plan.p1.to # sender

\* the balance of pubkey in balances, 0 when it has no entry
BalanceOf(bals, pubkey) == IF pubkey \in DOMAIN bals THEN bals[pubkey] ELSE 0

(***************************************************************************)
(* C23: while a postdated transfer is pending, apply_signature(sender,     *)
(* sig) credits the sender the whole amount of the transfer, removes the   *)
(* pending entry and leaves every other balance, the recipient's included, *)
(* as it was; apply_signature(other, sig) by any other account leaves the  *)
(* pending table and all balances unchanged.  And a transfer completed by  *)
(* a signature is no longer in the pending table, so that no later witness *)
(* can pay its recipient.                                                  *)
(***************************************************************************)
C23_Cancellation ==
    /\ [](\A c \in completed : c.w.kind = "Signature" => c.key \notin DOMAIN pending)
    /\ [][\A from \in PublicKey, sig \in Signature :
             (/\ sig \in DOMAIN pending
              /\ IsPostdated(pending[sig], TxOf(sig).from)
              /\ ApplySignatureCall(from, sig)) =>
                LET sender == TxOf(sig).from
                    recipient == pending[sig].p1.to
                IN IF from = sender
                   THEN /\ balances' = [balances EXCEPT ![sender] =
                                           @ + TxOf(sig).instruction.tokens]
                        /\ pending' = MapRemove(pending, sig)
                        /\ BalanceOf(balances', recipient) = BalanceOf(balances, recipient)
                   ELSE /\ pending' = pending
                        /\ balances' = balances]_vars

\* test_cancel_transfer: the postdated transfer s3 was parked and then
\* cancelled by the mint; the mint has all its tokens back, the entry is gone
\* and alice has no account
C23_Witness ==
    /\ "s3" \in parked
    /\ [w |-> SignatureCall("mint", "s3"), key |-> "s3"] \in completed
    /\ "s3" \notin DOMAIN pending
    /\ balances["mint"] = MintTokens
    /\ "alice" \notin DOMAIN balances


(***************************************************************************)
(* C24: Race exclusivity.  Under PlanSpec, for a contract whose plan is a  *)
(* Race and under every sequence of witnesses: the plan is at any time the *)
(* Race itself or the payment of one of its two branches; while it is the  *)
(* Race no witness so far satisfied a condition, and the first witness     *)
(* that satisfies one turns it into the payment of that branch, of the     *)
(* first branch when it satisfies both; and once it is a payment no later  *)
(* witness changes it, so the other branch is never paid.                  *)
(***************************************************************************)
C24_RaceExclusivity ==
    /\ [](probe.tx.instruction.plan.kind = "Race" =>
             probe.plan \in {probe.tx.instruction.plan,
                             Pay(probe.tx.instruction.plan.p1),
                             Pay(probe.tx.instruction.plan.p2)})
    /\ [][probe.tx.instruction.plan.kind = "Race" =>
             \A w \in Witnesses :
                ProbeWitness(w) =>
                   LET race == probe.tx.instruction.plan
                   IN probe'.plan =
                         IF has_final_payment(probe.plan) THEN probe.plan
                         ELSE IF is_satisfied(race.c1, w) THEN Pay(race.p1)
                         ELSE IF is_satisfied(race.c2, w) THEN Pay(race.p2)
                         ELSE race]_vars

\* a Race of Timestamp(2) paying 1 and Timestamp(1) paying 2 was reduced to
\* the payment of its second branch (by the timestamp 1, which satisfies the
\* second condition only), and the timestamp 2, which satisfies the first
\* condition, can still be applied
C24_Witness ==
    /\ probe.tx.instruction.plan.kind = "Race"
    /\ probe.tx.instruction.plan.c1 = CTimestamp(2)
    /\ probe.tx.instruction.plan.c2 = CTimestamp(1)
    /\ probe.tx.instruction.plan.p1 = Payment(1, "alice")
    /\ probe.plan = Pay(Payment(2, "alice"))
    /\ is_satisfied(probe.tx.instruction.plan.c1, WTimestamp(2))


(***************************************************************************)
(* C25: plan reduction is monotone and closed.                             *)
(***************************************************************************)
\* the conditions a plan waits for
ConditionsOf(plan) ==
    CASE plan.kind = "Pay" -> {}
      [] plan.kind = "After" -> {plan.c1}
      [] OTHER -> {plan.c1, plan.c2}

(***************************************************************************)
(* C25: under PlanSpec, for every contract and every sequence of           *)
(* witnesses, the reduced plan is a plan of the language (Pay, After or    *)
(* Race over the same conditions and payments); a witness applied to a Pay *)
(* plan leaves it the same Pay plan; and a witness that satisfies none of  *)
(* the conditions of a plan leaves the plan unchanged.                     *)
(***************************************************************************)
C25_ReductionMonotoneClosed ==
    /\ [](probe.tx.instruction.kind = "NewContract" => probe.plan \in Plans)
    /\ [][\A w \in Witnesses :
             ProbeWitness(w) =>
                /\ has_final_payment(probe.plan) => probe'.plan = probe.plan
                /\ (\A c \in ConditionsOf(probe.plan) : ~is_satisfied(c, w)) =>
                      probe'.plan = probe.plan
                /\ probe'.plan \in Plans]_vars

\* an After plan waiting for alice's signature was reduced to its payment,
\* to which every witness can still be applied
C25_Witness ==
    /\ probe.tx.instruction.plan = After(CSignature("alice"), Payment(1, "alice"))
    /\ probe.plan = Pay(Payment(1, "alice"))
    /\ \A w \in Witnesses : apply_witness(probe.plan, w) = probe.plan


(***************************************************************************)
(* DatedSpec: the operations of Spec on a bank that holds a postdated      *)
(* transfer whose date is MaxTime, so that the clock can be past the zero  *)
(* instant while a Timestamp condition is still unsatisfied.               *)
(***************************************************************************)
\* transfer_on_date of 1 token from the mint to alice, dated MaxTime
DatedTransfer == new_on_date("s13", "mint", "alice", MaxTime, 1, "h0")

\* Bank::new(&mint) followed by the transfer
DatedBank == process_transaction(new_bank("mint", MintTokens, "h0"), DatedTransfer).bank

DatedInit ==
    /\ balances = DatedBank.balances
    /\ pending = DatedBank.pending
    /\ last_ids = DatedBank.last_ids
    /\ time_sources = DatedBank.time_sources
    /\ last_time = DatedBank.last_time
    /\ transaction_count = DatedBank.transaction_count
    /\ ret = Ok
    /\ burnt = 0
    /\ admitted = {<<"s13", "h0">>}
    /\ everAdmitted = {<<"s13", "h0">>}
    /\ completed = {}
    /\ parked = {"s13"}
    /\ Quiet
    /\ start = DatedBank
    /\ probe = NoProbe
    /\ accountant = NoAccountant

DatedSpec == DatedInit /\ [][Next]_vars

(***************************************************************************)
(* C26: under DatedSpec, every apply_timestamp call made when the engine   *)
(* clock is past the zero instant, by an account that is not a time        *)
(* source, returns Ok and leaves the clock, the time sources, the pending  *)
(* table, the balances (and the rest of the bank) unchanged, whatever its  *)
(* timestamp and whatever the pending plans wait for.                      *)
(***************************************************************************)
C26_UntrustedTimestampIgnored ==
    [][\A from \in PublicKey, dt \in Time :
          (/\ last_time # ZeroInstant
           /\ from \notin time_sources
           /\ ApplyTimestampCall(from, dt)) =>
              /\ ret' = Ok
              /\ UNCHANGED bankvars]_vars

\* the clock stands at 1 by the mint's timestamp, the transfer dated MaxTime
\* is pending, and a timestamp MaxTime by alice, who is not a time source,
\* has returned Ok and changed nothing, where the same timestamp by the mint
\* releases the transfer
C26_Witness ==
    /\ last_time = 1
    /\ time_sources = {"mint"}
    /\ "s13" \in DOMAIN pending
    /\ pending["s13"].c1 = CTimestamp(MaxTime)
    /\ ret = Ok
    /\ apply_timestamp(Bank, "alice", MaxTime) = Bank
    /\ "s13" \notin DOMAIN apply_timestamp(Bank, "mint", MaxTime).pending


(***************************************************************************)
(* WitnessSpec: the operations of Spec, with witness transactions sent by  *)
(* the mint and by alice, who has no account until a transfer reaches her. *)
(***************************************************************************)
\* the witness transactions: a timestamp and a signature on s3, by either account
WitnessTransactions ==
    {TxOf("s6"), TxOf("s7"),
     new_timestamp("s12", "alice", 1, "h0"), new_signature("s14", "alice", "s3", "h0")}

\* the transfers beside them: s1 pays alice 2, s2 pays alice 0 (all of it is
\* fee), s3 is the postdated transfer
WitnessSubmissions == WitnessTransactions \cup {TxOf("s1"), TxOf("s2"), TxOf("s3")}

WitnessNext ==
    \/ \E tx \in WitnessSubmissions : Submit(tx)
    \/ \E h \in Hash : RegisterEntryId(h)
    \/ \E from \in PublicKey, dt \in Time : ApplyTimestampCall(from, dt)
    \/ \E from \in PublicKey, sig \in Signature : ApplySignatureCall(from, sig)

WitnessSpec == Init /\ [][WitnessNext]_vars

\* (In both formulas the test on ret' and everAdmitted' is implied by
\* ProcessTransaction(tx), which either fails or records the admission; it
\* comes first so that steps of other operations are dismissed cheaply.)

(***************************************************************************)
(* C27, as stated: every process_transaction of a transaction that carries *)
(* ApplyTimestamp or ApplySignature is rejected with AccountNotFound and   *)
(* leaves the bank unchanged when the sender has no balance entry; when    *)
(* the sender has an entry it is admitted and no balance is debited.       *)
(***************************************************************************)
C27_WitnessNeedsAccountAsStated ==
    [][\A tx \in WitnessTransactions :
          ((ret' # Ok \/ <<tx.sig, tx.last_id>> \in everAdmitted') /\ ProcessTransaction(tx)) =>
             IF tx.from \notin DOMAIN balances
             THEN /\ ret' = Err("AccountNotFound", tx.from)
                  /\ UNCHANGED bankvars
             ELSE /\ ret' = Ok
                  /\ apply_debits(Bank, tx).bank.balances = balances
                  /\ \A a \in DOMAIN balances : balances'[a] >= balances[a]]_vars

(***************************************************************************)
(* C27, amended: as above, but when the sender has an entry the result is  *)
(* that of the signature reservation: LastIdNotFound or DuplicateSignature *)
(* with the bank unchanged, else Ok, whatever the sender's balance, with   *)
(* no balance debited and the transaction counted.                         *)
(***************************************************************************)
C27_WitnessNeedsAccount ==
    [][\A tx \in WitnessTransactions :
          ((ret' # Ok \/ <<tx.sig, tx.last_id>> \in everAdmitted') /\ ProcessTransaction(tx)) =>
             LET r == reserve_signature_with_last_id(last_ids, tx.sig, tx.last_id)
             IN IF tx.from \notin DOMAIN balances
                THEN /\ ret' = Err("AccountNotFound", tx.from)
                     /\ UNCHANGED bankvars
                ELSE IF r.res # Ok
                THEN /\ ret' = r.res
                     /\ UNCHANGED bankvars
                ELSE /\ ret' = Ok
                     /\ apply_debits(Bank, tx).bank.balances = balances
                     /\ \A a \in DOMAIN balances : balances'[a] >= balances[a]
                     /\ transaction_count' = transaction_count + 1]_vars

\* alice's timestamp transaction was rejected with AccountNotFound (no other
\* transaction of WitnessSpec is sent by alice), nothing was admitted, and
\* the clock and the time sources are as Bank::new left them
C27_Witness ==
    /\ ret = Err("AccountNotFound", "alice")
    /\ "alice" \notin DOMAIN balances
    /\ last_time = ZeroInstant
    /\ time_sources = {}
    /\ transaction_count = 0


(***************************************************************************)
(* WindowSpec: reserve_signature_with_last_id, forget_signature_with_last_id*)
(* and register_entry_id called directly, as test_forget_signature and     *)
(* test_max_entry_ids do.                                                  *)
(***************************************************************************)
\* the signatures reserved and forgotten
WindowSignatures == {"s1", "s2"}

\* reserve_signature_with_last_id(&sig, &last_id)
ReserveCall(sig, last_id) ==
    /\ LET r == reserve_signature_with_last_id(last_ids, sig, last_id)
       IN /\ last_ids' = r.last_ids
          /\ ret' = r.res
    /\ UNCHANGED <<balances, pending, time_sources, last_time, transaction_count>>
    /\ UNCHANGED <<histvars, concvars>>

\* forget_signature_with_last_id(&sig, &last_id)
ForgetCall(sig, last_id) ==
    /\ last_ids' = forget_signature_with_last_id(last_ids, sig, last_id)
    /\ ret' = Ok
    /\ UNCHANGED <<balances, pending, time_sources, last_time, transaction_count>>
    /\ UNCHANGED <<histvars, concvars>>

WindowNext ==
    \/ \E sig \in WindowSignatures, last_id \in Hash : ReserveCall(sig, last_id)
    \/ \E sig \in WindowSignatures, last_id \in Hash : ForgetCall(sig, last_id)
    \/ \E h \in Hash : RegisterEntryId(h)

WindowSpec == Init /\ [][WindowNext]_vars

\* the position of the newest entry of ids that carries fp, 0 when no entry does
Newest(ids, fp) ==
    IF \A i \in 1..Len(ids) : ids[i].id # fp THEN 0
    ELSE CHOOSE i \in 1..Len(ids) :
            /\ ids[i].id = fp
            /\ \A j \in (i + 1)..Len(ids) : ids[j].id # fp

\* ids and after are the same window but for the sig-set at position i
SameBut(ids, after, i) ==
    /\ Len(after) = Len(ids)
    /\ \A j \in 1..Len(ids) :
          /\ after[j].id = ids[j].id
          /\ j # i => after[j].sigs = ids[j].sigs

(***************************************************************************)
(* C28: reservation round trip.  Under WindowSpec, on every call:          *)
(* reserve_signature(sig, fp) that succeeds puts sig into the sig-set of   *)
(* the newest entry carrying fp and changes no other sig-set, and a        *)
(* forget_signature(sig, fp) after it gives back the window as it was, on  *)
(* which reserve_signature(sig, fp) succeeds again; forget_signature(sig,  *)
(* fp) changes nothing when sig is not reserved under fp or no entry       *)
(* carries fp, and otherwise removes sig from the newest entry carrying fp *)
(* and touches no other sig-set, after which reserve_signature(sig, fp)    *)
(* succeeds.                                                               *)
(***************************************************************************)
C28_ReservationRoundTrip ==
    [][\A sig \in WindowSignatures, fp \in Hash :
          LET i == Newest(last_ids, fp)
          IN /\ (ReserveCall(sig, fp) /\ ret' = Ok) =>
                   /\ i # 0
                   /\ sig \notin last_ids[i].sigs
                   /\ last_ids'[i].sigs = last_ids[i].sigs \cup {sig}
                   /\ SameBut(last_ids, last_ids', i)
                   /\ forget_signature_with_last_id(last_ids', sig, fp) = last_ids
                   /\ reserve_signature_with_last_id(
                         forget_signature_with_last_id(last_ids', sig, fp), sig, fp).res = Ok
             /\ ForgetCall(sig, fp) =>
                   IF i = 0 THEN last_ids' = last_ids
                   ELSE IF sig \notin last_ids[i].sigs THEN last_ids' = last_ids
                   ELSE /\ last_ids'[i].sigs = last_ids[i].sigs \ {sig}
                        /\ SameBut(last_ids, last_ids', i)
                        /\ reserve_signature_with_last_id(last_ids', sig, fp).res = Ok]_vars

\* s1 was reserved under h0, h0 was registered again and s2 reserved under
\* it: s1 sits in the older entry only, so that forget_signature(s1, h0),
\* which looks at the newer entry, changes nothing, and reserve_signature(s1,
\* h0) succeeds
C28_Witness ==
    /\ Len(last_ids) = 2
    /\ last_ids[1] = [id |-> "h0", sigs |-> {"s1"}]
    /\ last_ids[2] = [id |-> "h0", sigs |-> {"s2"}]
    /\ ret = Ok
    /\ forget_signature_with_last_id(last_ids, "s1", "h0") = last_ids
    /\ reserve_signature_with_last_id(last_ids, "s1", "h0").res = Ok


(***************************************************************************)
(* PaySpec: two threads, each running one apply_payment, to alice (who has *)
(* no account when they start) or to the mint (who has one).  The steps    *)
(* are those of ConcSpec: PayCheck, then PayAdd or PayInsert.              *)
(***************************************************************************)
\* the payments the threads make
ThreadPayments == {Payment(n, to) : n \in 1..MintTokens, to \in PublicKey}

\* a thread at the start of apply_payment(&payment)
PayThread(payment) ==
    [ThreadAt([NoJob EXCEPT !.op = "pay"], "pay_check") EXCEPT
        !.pay = payment, !.retpc = "done"]

PayInit ==
    /\ balances = new_bank("mint", MintTokens, "h0").balances
    /\ pending = new_bank("mint", MintTokens, "h0").pending
    /\ last_ids = new_bank("mint", MintTokens, "h0").last_ids
    /\ time_sources = new_bank("mint", MintTokens, "h0").time_sources
    /\ last_time = new_bank("mint", MintTokens, "h0").last_time
    /\ transaction_count = new_bank("mint", MintTokens, "h0").transaction_count
    /\ start = new_bank("mint", MintTokens, "h0")
    /\ ret = NoRet
    /\ burnt = 0
    /\ admitted = {}
    /\ everAdmitted = {}
    /\ completed = {}
    /\ parked = {}
    /\ mode = "calls"
    /\ \E p1 \in ThreadPayments, p2 \in ThreadPayments :
          thr = [t \in Thread |-> IF t = 1 THEN PayThread(p1) ELSE PayThread(p2)]
    /\ balReaders = {}
    /\ lastIdsReaders = {}
    /\ pendingWriter = 0
    /\ probe = NoProbe
    /\ accountant = NoAccountant

PayNext == \E t \in Thread : PayCheck(t) \/ PayAdd(t) \/ PayInsert(t)

PaySpec == PayInit /\ [][PayNext]_vars

\* the tokens of the payments to pubkey that have been applied
Paid(pubkey) ==
    SumOver([t \in Thread |-> IF thr[t].pay.to = pubkey /\ thr[t].pc = "done"
                              THEN thr[t].pay.tokens ELSE 0], Thread)

(***************************************************************************)
(* C29: no lost credit on first-time insert.  Under PaySpec, in every      *)
(* interleaving of the two apply_payment calls, the balance of every       *)
(* account is what it was at the start (nothing, for an account that did   *)
(* not exist) plus the tokens of the payments to it that have returned; an *)
(* account without entry has received none.  When both calls have returned *)
(* the balance of an account is thus its start balance plus the sum of all *)
(* payments to it.                                                         *)
(***************************************************************************)
C29_NoLostCredit ==
    \A pubkey \in PublicKey :
        IF pubkey \in DOMAIN balances
        THEN balances[pubkey] = BalanceOf(start.balances, pubkey) + Paid(pubkey)
        ELSE Paid(pubkey) = 0

\* both calls pay alice, both found her without entry; the first has inserted
\* her account, and the second, which waits for the write lock, has yet to
\* find out
C29_Witness ==
    /\ thr[1].pay.to = "alice"
    /\ thr[2].pay.to = "alice"
    /\ thr[1].pc = "done"
    /\ thr[2].pc = "pay_insert"
    /\ "alice" \notin DOMAIN start.balances
    /\ balances["alice"] = thr[1].pay.tokens


(***************************************************************************)
(* C30, as stated: no stale satisfied plan.  Under ConcSpec, whenever both *)
(* calls have returned (no operation is in progress), no plan of the       *)
(* pending table is a final payment and none waits for a Timestamp         *)
(* condition that is not after the engine clock.                           *)
(***************************************************************************)
C30_NoStalePlanAsStated ==
    AllDone =>
        \A key \in DOMAIN pending :
            /\ ~has_final_payment(pending[key])
            /\ \A c \in ConditionsOf(pending[key]) :
                  c.kind = "Timestamp" => c.dt > last_time


(***************************************************************************)
(* C31, as stated: an admitted signature stays reserved.  Under ConcSpec,  *)
(* in every interleaving of the two calls, once apply_debits has returned  *)
(* Ok for a transaction, its signature is in the sig-set of the window     *)
(* entry it was reserved in (no entry is evicted while two calls run: the  *)
(* window starts with one entry and at most one fingerprint is registered).*)
(***************************************************************************)
C31_AdmittedStaysReservedAsStated ==
    \A t \in Thread :
        (thr[t].job.op = "tx" /\ thr[t].res = Ok) =>
            /\ thr[t].ent \in 1..Len(last_ids)
            /\ last_ids[thr[t].ent].id = JobTx(t).last_id
            /\ JobTx(t).sig \in last_ids[thr[t].ent].sigs


(***************************************************************************)
(* RollbackSpec: process_entries calls on entries that mix transfers that  *)
(* are admitted with transfers that are rejected: s1 takes both tokens of  *)
(* the mint, s3 is the postdated transfer of one token, s4 is sent by      *)
(* alice.                                                                  *)
(***************************************************************************)
RollbackTransactions == {TxOf("s1"), TxOf("s3"), TxOf("s4")}

RollbackShort == {<<>>} \cup {<<a>> : a \in RollbackTransactions}

RollbackBatches ==
    RollbackShort \cup {<<a, b>> : a \in RollbackTransactions, b \in RollbackTransactions}

RollbackLists ==
    {<<Entry(id, txs)>> : id \in Hash, txs \in RollbackBatches}
    \cup {<<Entry(id1, txs1), Entry(id2, txs2)>> :
             id1 \in Hash, txs1 \in RollbackBatches, id2 \in Hash, txs2 \in RollbackShort}

RollbackNext == \E entries \in RollbackLists, backwards \in BOOLEAN :
                   ProcessEntriesCall(entries, backwards)

RollbackSpec == Init /\ [][RollbackNext]_vars

\* how many results are Ok
CountOk(results) == Cardinality({i \in 1..Len(results) : results[i] = Ok})

\* process_entries up to the first entry with a rejected transaction: the
\* bank before that entry, the entry, the results of its transactions, and
\* the number of transactions admitted in it and in the entries before it
RECURSIVE FailingPoint(_, _, _, _)
FailingPoint(b, entries, backwards, n) ==
    LET entry == Head(entries)
        r == process_transactions_scheduled(b, entry.transactions, backwards)
    IN IF first_error(r.results) # Ok \/ Len(entries) = 1
       THEN [before |-> b, entry |-> entry, results |-> r.results,
             admitted |-> n + CountOk(r.results)]
       ELSE FailingPoint(register_entry_id(r.bank, entry.id), Tail(entries), backwards,
                         n + CountOk(r.results))

(***************************************************************************)
(* C32: process_entries does not roll back.  In every reachable state of   *)
(* RollbackSpec, for every list of entries and either schedule, when       *)
(* process_entries returns an error: transaction_count has grown by the    *)
(* number of transactions admitted in the failing entry and in the entries *)
(* before it; every transaction admitted in the failing entry has its      *)
(* signature reserved under its fingerprint, and its plan in the pending   *)
(* table when it did not pay at once; and every balance is the balance     *)
(* before the failing entry less the tokens of the admitted transfers sent *)
(* from the account plus the payments the admitted transfers made to it.   *)
(***************************************************************************)
C32_NoRollback ==
    \A entries \in RollbackLists, backwards \in BOOLEAN :
        LET out == process_entries(Bank, entries, backwards)
            f == FailingPoint(Bank, entries, backwards, 0)
            txs == f.entry.transactions
            okset == {i \in 1..Len(txs) : f.results[i] = Ok}
            Debited(i, pubkey) ==
                IF txs[i].instruction.kind = "NewContract" /\ txs[i].from = pubkey
                THEN txs[i].instruction.tokens ELSE 0
            Credited(i, pubkey) ==
                LET p == ImmediatePayment(txs[i].instruction.plan, f.before.last_time)
                IN IF txs[i].instruction.kind = "NewContract" /\ p # NoPay /\ p.to = pubkey
                   THEN p.tokens ELSE 0
        IN out.res # Ok =>
              /\ out.bank.transaction_count = transaction_count + f.admitted
              /\ \A i \in okset :
                    /\ find_last_id(out.bank.last_ids, txs[i].last_id) \in
                          Holders(out.bank.last_ids, txs[i].sig)
                    /\ Parks(f.before, txs[i]) => txs[i].sig \in DOMAIN out.bank.pending
              /\ \A pubkey \in PublicKey :
                    BalanceOf(out.bank.balances, pubkey) =
                       BalanceOf(f.before.balances, pubkey)
                       - SumOver([i \in okset |-> Debited(i, pubkey)], okset)
                       + SumOver([i \in okset |-> Credited(i, pubkey)], okset)

\* a process_entries call returned InsufficientFunds, and the postdated
\* transfer s3 of the same entry stays admitted: the mint is debited, s3 is
\* reserved, pending and counted.  No entry was ever registered (the window
\* is as Bank::new left it), so s3 was not admitted by a call that succeeded
C32_Witness ==
    /\ ret = Err("InsufficientFunds", "mint")
    /\ WindowIds(last_ids) = <<"h0">>
    /\ last_ids[1].sigs = {"s3"}
    /\ "s3" \in DOMAIN pending
    /\ balances = [mint |-> MintTokens - 1]
    /\ transaction_count = 1


(***************************************************************************)
(* The Accountant (accountant.rs), a client of the historian.  The         *)
(* historian itself is outside the sources modelled here: of it the model  *)
(* keeps the channel the Accountant sends on (the events sent, and whether *)
(* the receiving end still lives) and, per event, what verify_event        *)
(* answers for it.                                                         *)
(***************************************************************************)
\* Event::Tick
Tick == [kind |-> "Tick", from |-> "none", to |-> "none", data |-> 0, verifies |-> TRUE]

\* Event::Transaction { from, to, data, sig }; verifies: whether sig signs the rest
TransactionEvent(from, to, data, verifies) ==
    [kind |-> "Transaction", from |-> from, to |-> to, data |-> data, verifies |-> verifies]

\* Event::new_claim(to, data, sig): a transaction from the account to itself
new_claim(to, data, verifies) == TransactionEvent(to, to, data, verifies)

\* historian.verify_event(&event)
verify_event(event) == event.verifies

\* Accountant::is_deposit
is_deposit(allow_deposits, from, to) == allow_deposits /\ from = to

\* Accountant::get_balance(pubkey).unwrap_or(0)
get_balance_or_zero(acc, pubkey) ==
    IF pubkey \in DOMAIN acc.balances THEN acc.balances[pubkey] ELSE 0

\* historian.sender.send(event): fails once the receiving end is gone
historian_send(acc, event) ==
    IF acc.historian.alive
    THEN [acc |-> [acc EXCEPT !.historian.sent = Append(@, event)], res |-> Ok]
    ELSE [acc |-> acc, res |-> Err("SendError", "none")]

\* a variant of process_verified_event that sends the event to the historian
\* before it tests the sender's funds
process_verified_event_sends_first(acc, event, allow_deposits) ==
    IF event.kind = "Tick" THEN [acc |-> acc, res |-> Ok]
    ELSE
      LET sent == historian_send(acc, event)
      IN  IF sent.res # Ok THEN sent
          ELSE IF ~is_deposit(allow_deposits, event.from, event.to)
                  /\ get_balance_or_zero(acc, event.from) < event.data
          THEN [acc |-> sent.acc, res |-> Err("InsufficientFunds", "none")]
          ELSE
            LET b0 == sent.acc.balances
                b1 == IF ~is_deposit(allow_deposits, event.from, event.to)
                         /\ event.from \in DOMAIN b0
                      THEN [b0 EXCEPT ![event.from] = @ - event.data]
                      ELSE b0
                b2 == IF event.to \in DOMAIN b1
                      THEN [b1 EXCEPT ![event.to] = @ + event.data]
                      ELSE [k \in DOMAIN b1 \cup {event.to} |->
                              IF k = event.to THEN event.data ELSE b1[k]]
            IN  [acc |-> [sent.acc EXCEPT !.balances = b2], res |-> Ok]

\* Accountant::process_verified_event: the Accountant it leaves and what it returns
process_verified_event(acc, event, allow_deposits) ==
    IF event.kind = "Tick" THEN [acc |-> acc, res |-> Ok]
    ELSE
      LET from == event.from
          to == event.to
          data == event.data
          deposit_ == is_deposit(allow_deposits, from, to)
      IN  IF ~deposit_ /\ get_balance_or_zero(acc, from) < data
          THEN [acc |-> acc, res |-> Err("InsufficientFunds", "none")]
          ELSE
            LET sent == historian_send(acc, event)
            IN  IF sent.res # Ok THEN sent
                ELSE
                  LET b0 == sent.acc.balances
                      \* if let Some(x) = self.balances.get_mut(&from) { *x -= data; }
                      b1 == IF ~deposit_ /\ from \in DOMAIN b0
                            THEN [b0 EXCEPT ![from] = @ - data]
                            ELSE b0
                      \* *x += data, or insert(to, data)
                      b2 == IF to \in DOMAIN b1
                            THEN [b1 EXCEPT ![to] = @ + data]
                            ELSE [k \in DOMAIN b1 \cup {to} |->
                                    IF k = to THEN data ELSE b1[k]]
                  IN  [acc |-> [sent.acc EXCEPT !.balances = b2], res |-> Ok]

\* Accountant::process_event
process_event(acc, event) ==
    IF ~verify_event(event)
    THEN [acc |-> acc, res |-> Err("InvalidEvent", "none")]
    ELSE process_verified_event(acc, event, FALSE)

\* Accountant::deposit
deposit(acc, n, to) ==
    LET event == new_claim(to, n, TRUE)
    IN  IF ~verify_event(event)
        THEN [acc |-> acc, res |-> Err("InvalidEvent", "none")]
        ELSE process_verified_event(acc, event, TRUE)

\* Accountant::transfer
transfer(acc, n, from, to) == process_event(acc, TransactionEvent(from, to, n, TRUE))

\* gen.create_events() of a genesis without creators: a tick, then the mint's claim
GenesisEvents == <<Tick, new_claim("mint", MintTokens, TRUE)>>

RECURSIVE process_genesis(_, _, _)
\* the loop of Accountant::new: the first two events may be deposits
process_genesis(acc, events, i) ==
    IF i > Len(events) THEN acc
    ELSE process_genesis(process_verified_event(acc, events[i], i - 1 < 2).acc,
                         events, i + 1)

\* Accountant::new
new_accountant ==
    process_genesis([balances |-> EmptyMap,
                     historian |-> [sent |-> << >>, alive |-> TRUE]],
                    GenesisEvents, 1)

\* the amounts an event may carry
Amounts == 0..(MintTokens + 1)

\* the events process_event may be handed
AccountantEvents ==
    {Tick} \cup {TransactionEvent(from, to, data, verifies) :
                    from \in PublicKey, to \in PublicKey, data \in Amounts,
                    verifies \in BOOLEAN}

RECURSIVE SumOf(_, _)
\* the sum of the map's values over keys
SumOf(map, keys) ==
    IF keys = {} THEN 0
    ELSE LET k == CHOOSE x \in keys : TRUE
         IN  map[k] + SumOf(map, keys \ {k})

\* the sum of the Accountant's balances
TotalBalance(acc) == SumOf(acc.balances, DOMAIN acc.balances)

\* the channel takes one event more
HasRoom == Len(accountant.historian.sent) <= MaxCount

AccountantInit ==
    /\ balances = new_bank("mint", MintTokens, "h0").balances
    /\ pending = new_bank("mint", MintTokens, "h0").pending
    /\ last_ids = new_bank("mint", MintTokens, "h0").last_ids
    /\ time_sources = new_bank("mint", MintTokens, "h0").time_sources
    /\ last_time = new_bank("mint", MintTokens, "h0").last_time
    /\ transaction_count = new_bank("mint", MintTokens, "h0").transaction_count
    /\ ret = NoRet
    /\ burnt = 0
    /\ admitted = {}
    /\ everAdmitted = {}
    /\ completed = {}
    /\ parked = {}
    /\ Quiet
    /\ start = new_bank("mint", MintTokens, "h0")
    /\ probe = NoProbe
    /\ accountant = new_accountant

\* the call leaves the Accountant of r and returns its result
AccountantReturns(r) ==
    /\ accountant' = r.acc
    /\ ret' = r.res
    /\ UNCHANGED <<bankvars, histvars, thr, mode, balReaders, lastIdsReaders,
                   pendingWriter, start, probe>>

\* acc.process_event(event)
ProcessEventCall(event) ==
    /\ HasRoom
    /\ AccountantReturns(process_event(accountant, event))

\* acc.deposit(n, &keypair), the keypair being that of 'to'
DepositCall(n, to) ==
    /\ HasRoom
    /\ TotalBalance(accountant) + n <= 2 * MintTokens
    /\ AccountantReturns(deposit(accountant, n, to))

\* acc.transfer(n, &keypair, to), the keypair being that of 'from'
TransferCall(n, from, to) ==
    /\ HasRoom
    /\ AccountantReturns(transfer(accountant, n, from, to))

\* the historian's thread ends and drops the receiving end of the channel
HistorianExits ==
    /\ accountant.historian.alive
    /\ accountant' = [accountant EXCEPT !.historian.alive = FALSE]
    /\ UNCHANGED <<bankvars, ret, histvars, thr, mode, balReaders, lastIdsReaders,
                   pendingWriter, start, probe>>

AccountantNext ==
    \/ \E n \in Amounts, from \in PublicKey, to \in PublicKey : TransferCall(n, from, to)
    \/ \E n \in Amounts, to \in PublicKey : DepositCall(n, to)
    \/ \E event \in AccountantEvents : ProcessEventCall(event)
    \/ HistorianExits

AccountantSpec == AccountantInit /\ [][AccountantNext]_vars


(***************************************************************************)
(* C33, as stated: process_event of a verifying transfer of n from an      *)
(* account whose balance is less than n, or that has no balance, fails     *)
(* with InsufficientFunds, sends nothing to the historian and leaves every *)
(* balance unchanged; an accepted transfer leaves the sender n lower and   *)
(* the recipient n higher (the two cancel when they are one account), and  *)
(* the sum of the balances as it was.                                      *)
(* Violated: a transfer of 0 from an account without balance is accepted   *)
(* (a missing balance reads as 0, and 0 < 0 fails), it is sent to the      *)
(* historian and gives the recipient an entry.                             *)
(***************************************************************************)
C33_InsufficientFundsAsStated ==
    [][\A event \in AccountantEvents :
        (event.kind = "Transaction" /\ verify_event(event) /\ ProcessEventCall(event)) =>
            LET from == event.from
                to == event.to
                n == event.data
                before == accountant
                after == accountant'
            IN  /\ (from \notin DOMAIN before.balances
                        \/ get_balance_or_zero(before, from) < n) =>
                      /\ ret' = Err("InsufficientFunds", "none")
                      /\ after.historian.sent = before.historian.sent
                      /\ after.balances = before.balances
                /\ ret' = Ok =>
                      /\ from # to =>
                            /\ get_balance_or_zero(after, from)
                                  = get_balance_or_zero(before, from) - n
                            /\ get_balance_or_zero(after, to)
                                  = get_balance_or_zero(before, to) + n
                      /\ TotalBalance(after) = TotalBalance(before)
      ]_vars

(***************************************************************************)
(* C33: process_event of a verifying transfer of n from an account whose   *)
(* balance, read as 0 when the account has none, is less than n fails with *)
(* InsufficientFunds, sends nothing to the historian and leaves every      *)
(* balance unchanged; an accepted transfer had a sender holding at least   *)
(* n, is sent to the historian, leaves the sender n lower and the          *)
(* recipient n higher when they differ and the balance unchanged when they *)
(* are the same account, touches no other balance, and preserves the sum   *)
(* of the balances.                                                        *)
(***************************************************************************)
C33_InsufficientFundsAndConservation ==
    [][\A event \in AccountantEvents :
        (event.kind = "Transaction" /\ verify_event(event) /\ ProcessEventCall(event)) =>
            LET from == event.from
                to == event.to
                n == event.data
                before == accountant
                after == accountant'
                Was(k) == get_balance_or_zero(before, k)
                Is(k) == get_balance_or_zero(after, k)
            IN  /\ Was(from) < n =>
                      /\ ret' = Err("InsufficientFunds", "none")
                      /\ after.historian.sent = before.historian.sent
                      /\ after.balances = before.balances
                /\ ret' = Ok =>
                      /\ Was(from) >= n
                      /\ after.historian.sent = Append(before.historian.sent, event)
                      /\ from # to => Is(from) = Was(from) - n /\ Is(to) = Was(to) + n
                      /\ from = to => Is(from) = Was(from)
                      /\ \A k \in PublicKey \ {from, to} : Is(k) = Was(k)
                      /\ DOMAIN after.balances = DOMAIN before.balances \cup {to}
                      /\ TotalBalance(after) = TotalBalance(before)
      ]_vars

\* after an accepted transfer of one token from the mint to alice, a transfer
\* of more than alice holds was refused: nothing more was sent, nothing moved
C33_Witness ==
    /\ ret = Err("InsufficientFunds", "none")
    /\ accountant.balances = [mint |-> MintTokens - 1, alice |-> 1]
    /\ accountant.historian.sent
          = <<new_claim("mint", MintTokens, TRUE), TransactionEvent("mint", "alice", 1, TRUE)>>

====
